---- MODULE Spec2Model ----
(***************************************************************************)
(* KanMind backend: boards with an owner and a member set, tasks on a      *)
(* board, comments on a task.  Every HTTP handler of kanmind_app/api is    *)
(* one action; the relational store is the state.  Each action runs the    *)
(* handler's checks in the order the code runs them and records the        *)
(* outcome of the request in resp.                                         *)
(***************************************************************************)
EXTENDS Integers, Sequences, FiniteSets, TLC

(* ------------------------------ bounds ---------------------------------- *)
\* rows of the user table (ids 1..NumUsers)
NumUsers == 3
\* longest member id list a request carries
MaxMemberList == 2
\* boards ever created in SpecBoards (primary keys are never reused)
MaxBoards == 2
\* boards ever created in SpecTasks and SpecComments
MaxTaskBoards == 1
\* tasks ever created in SpecTasks
MaxTasks == 1
\* tasks and comments ever created in SpecComments
MaxCommentTasks == 2
MaxComments == 1

(* ------------------------------ values ---------------------------------- *)
\* null foreign key / no value
NULL == 0

\* The board, task and comment handlers run behind IsAuthenticated: Users
\* are the ids of the users their requests are authenticated as.
Users == 1..NumUsers
\* the ids a client may send where a user id is expected: the existing users
\* and one id that resolves to no user
UserIdInputs == 1..(NumUsers + 1)
\* the ids a client may send for a table that has issued at most n keys: those
\* keys and one that was never issued
IdInputs(n) == 1..(n + 1)

\* mutant: Task.Status has one more choice
StatusesAndMore == {"to-do", "in-progress", "review", "done", "bogus"}

\* Task.Status and Task.Priority
Statuses == {"to-do", "in-progress", "review", "done"}
Priorities == {"low", "medium", "high"}

OK == "OK"
NotFound == "NotFound"
PermissionDenied == "PermissionDenied"
ValidationError == "ValidationError"

VARIABLES
    boards,        \* board id -> [title, owner, members]
    tasks,         \* task id -> [board, created_by, title, description, due_date,
                   \*             assignee, reviewer, status, priority]
    comments,      \* comment id -> [task, author, content, created_at]
    nextBoardId,   \* next primary key of each table
    nextTaskId,
    nextCommentId,
    accounts,      \* user id -> [username, email, password, is_active, first_name, last_name]
    tokens,        \* the rows [key, user] of the token table
    nextUserId,
    nextTokenKey,  \* the next key the token generator hands out
    inflight,      \* worker -> the request it is in the middle of, with what it
                   \*           has read and checked so far
    resp           \* the last request and its response

vars == <<boards, tasks, comments, nextBoardId, nextTaskId, nextCommentId,
          accounts, tokens, nextUserId, nextTokenKey, inflight, resp>>
db == <<boards, tasks, comments, nextBoardId, nextTaskId, nextCommentId>>
auth == <<accounts, tokens, nextUserId, nextTokenKey>>

(* ------------------------------ helpers --------------------------------- *)
Range(s) == {s[i] : i \in DOMAIN s}

\* f with key k removed
Drop(f, ks) == [k \in (DOMAIN f) \ ks |-> f[k]]

\* f with key k bound to v
Put(f, k, v) == [x \in (DOMAIN f) \cup {k} |-> IF x = k THEN v ELSE f[x]]

\* the ascending sequence of a finite set of integers (ORDER BY id)
RECURSIVE SortedSeq(_)
SortedSeq(S) ==
    IF S = {} THEN <<>>
    ELSE LET m == CHOOSE x \in S : \A y \in S : x <= y
         IN <<m>> \o SortedSeq(S \ {m})

\* the lists of ids from S, of at most MaxMemberList entries, ascending with
\* repeats
MemberLists(S) ==
    {l \in UNION {[1..n -> S] : n \in 0..MaxMemberList} :
        \A i \in 1..(Len(l) - 1) : l[i] <= l[i + 1]}

\* A request body is a function from the names of the fields it carries to
\* their values; Has(body, f) is Python's `f in data`.
EmptyBody == [f \in {} |-> NULL]
Has(body, f) == f \in DOMAIN body

\* the last request (handler, requester, id in the URL, body where the handler
\* reads one) and its response (outcome and returned data)
Response(op, user, target, body, result, data) ==
    [op |-> op, user |-> user, target |-> target, body |-> body,
     result |-> result, data |-> data]



\* titles a client sends
Titles == {"A", "B"}

\* the body {f: v} for every v, and the body without f
Optional(f, values) == {EmptyBody} \cup {[x \in {f} |-> v] : v \in values}
\* the body {f: v} for every v
Required(f, values) == {[x \in {f} |-> v] : v \in values}
\* every body made of one body of A and one of B
Bodies(A, B) == {x @@ y : x \in A, y \in B}

\* list(dict.fromkeys(ids)): the ids in order of first occurrence
RECURSIVE Dedup(_)
Dedup(ids) ==
    IF ids = <<>> THEN <<>>
    ELSE LET front == Dedup(SubSeq(ids, 1, Len(ids) - 1))
             last == ids[Len(ids)]
         IN IF last \in Range(front) THEN front ELSE Append(front, last)

\* The server's workers, each handling one request at a time.
NumWorkers == 2
Workers == 1..NumWorkers
Idle == [op |-> "idle"]

Init ==
    /\ boards = <<>>
    /\ tasks = <<>>
    /\ comments = <<>>
    /\ nextBoardId = 1
    /\ nextTaskId = 1
    /\ nextCommentId = 1
    /\ accounts = <<>>
    /\ tokens = {}
    /\ nextUserId = 1
    /\ nextTokenKey = 1
    /\ inflight = [w \in Workers |-> Idle]
    /\ resp = Response("none", NULL, NULL, EmptyBody, OK, <<>>)

(* ------------------------- boards: GET/POST /boards/ -------------------- *)
\* The rows of Board LEFT JOIN members LEFT JOIN tasks that pass
\* filter(Q(owner=user) | Q(members=user)), as <<board, member, task>>.
TasksOn(b) == {t \in DOMAIN tasks : tasks[t].board = b}

BoardListRows(u) ==
    {row \in UNION {
        {<<b, m, t>> :
            m \in (IF boards[b].members = {} THEN {NULL} ELSE boards[b].members),
            t \in (IF TasksOn(b) = {} THEN {NULL} ELSE TasksOn(b))}
        : b \in DOMAIN boards} :
      boards[row[1]].owner = u \/ row[2] = u}

\* mutant: the rows neither grouped nor made distinct, one entry per joined row
RECURSIVE RowsAsSeq(_)
RowsAsSeq(rows) ==
    IF rows = {} THEN <<>>
    ELSE LET r == CHOOSE x \in rows : \A y \in rows :
                      x[1] < y[1] \/ (x[1] = y[1] /\ x[2] < y[2])
                          \/ (x[1] = y[1] /\ x[2] = y[2] /\ x[3] <= y[3])
         IN <<r[1]>> \o RowsAsSeq(rows \ {r})
BoardListQueryUngrouped(u) == RowsAsSeq(BoardListRows(u))

\* the rows grouped by board id (annotate + distinct), ordered by id
BoardListQuery(u) == SortedSeq({row[1] : row \in BoardListRows(u)})

\* The annotations of the list query for board b: the Count(..., distinct=True)
\* aggregates, taken over the joined rows of b that passed the filter.
Annotations(u, b) ==
    LET rows == {row \in BoardListRows(u) : row[1] = b}
        ts == {row[3] : row \in rows} \ {NULL}
    IN [member_count |-> Cardinality({row[2] : row \in rows} \ {NULL}),
        ticket_count |-> Cardinality(ts),
        tasks_to_do_count |-> Cardinality({t \in ts : tasks[t].status = "to-do"}),
        tasks_high_prio_count |-> Cardinality({t \in ts : tasks[t].priority = "high"})]

\* BoardListSerializer.get_*_count: one query per board and count
ListCounts(b) ==
    [member_count |-> Cardinality(boards[b].members),
     ticket_count |-> Cardinality(TasksOn(b)),
     tasks_to_do_count |-> Cardinality({t \in TasksOn(b) : tasks[t].status = "to-do"}),
     tasks_high_prio_count |-> Cardinality({t \in TasksOn(b) : tasks[t].priority = "high"})]

\* BoardListSerializer over the queryset: per board its id, the counts the
\* serializer reports and the annotations the row carries
BoardListData(u) ==
    LET q == BoardListQuery(u)
    IN [i \in DOMAIN q |->
          [id |-> q[i], counts |-> ListCounts(q[i]), annotated |-> Annotations(u, q[i])]]

BoardList(u) ==
    /\ UNCHANGED <<auth, inflight>>
    /\ resp' = Response("BoardList", u, NULL, EmptyBody, OK, BoardListData(u))
    /\ UNCHANGED db

\* BoardCreateSerializer.validate_members: the deduplicated ids, or a
\* ValidationError when an id resolves to no user
ValidateMembers(member_ids) ==
    IF member_ids = <<>> THEN [ok |-> TRUE, ids |-> <<>>, missing |-> <<>>]
    ELSE LET ids == Dedup(member_ids)
             missing == SortedSeq(Range(ids) \ Users)
         IN IF missing # <<>> THEN [ok |-> FALSE, ids |-> <<>>, missing |-> missing]
            ELSE [ok |-> TRUE, ids |-> ids, missing |-> <<>>]

\* BoardCreateSerializer.create: the new row, owner taken from the request
CreateBoard(u, title, member_ids) ==
    [title |-> title, owner |-> u,
     members |-> IF member_ids # <<>> THEN Range(member_ids) \cap Users ELSE {}]

\* mutant: the requester is not added to the members
PerformCreateBoardNoAdd(u, title, member_ids) == CreateBoard(u, title, member_ids)

\* BoardListCreateView.perform_create: save, then add the requester as member
PerformCreateBoard(u, title, member_ids) ==
    LET b == CreateBoard(u, title, member_ids)
    IN [b EXCEPT !.members = @ \cup {u}]

\* BoardCreateSerializer.get_member_count on the saved instance
GetMemberCount(b) == Cardinality(b.members)

BoardCreate(u, body) ==
    LET v == ValidateMembers(IF Has(body, "members") THEN body.members ELSE <<>>)
    IN IF ~Has(body, "title") \/ ~v.ok
       THEN /\ UNCHANGED <<auth, inflight>>
            /\ resp' = Response("BoardCreate", u, NULL, body, ValidationError, v.missing)
            /\ UNCHANGED db
       ELSE LET b == PerformCreateBoard(u, body.title, v.ids)
            IN /\ boards' = Put(boards, nextBoardId, b)
               /\ nextBoardId' = nextBoardId + 1
               /\ UNCHANGED <<auth, inflight>>
               /\ resp' = Response("BoardCreate", u, nextBoardId, body, OK,
                                   <<nextBoardId, b.owner, GetMemberCount(b)>>)
               /\ UNCHANGED <<tasks, comments, nextTaskId, nextCommentId>>

(* ------------------ boards: GET/PUT/PATCH/DELETE /boards/{id}/ ---------- *)
\* mutant: only the owner passes, the member test is forgotten
BoardGetObjectOwnerOnly(u, b) ==
    IF b \notin DOMAIN boards THEN NotFound
    ELSE IF boards[b].owner # u THEN PermissionDenied
    ELSE OK

\* mutant: only members pass, the owner test is forgotten
BoardGetObjectMembersOnly(u, b) ==
    IF b \notin DOMAIN boards THEN NotFound
    ELSE IF ~(u \in boards[b].members) THEN PermissionDenied
    ELSE OK

\* BoardDetailUpdateView.get_object
BoardGetObject(u, b) ==
    IF b \notin DOMAIN boards THEN NotFound
    ELSE IF boards[b].owner # u /\ ~(u \in boards[b].members) THEN PermissionDenied
    ELSE OK

BoardRetrieve(u, b) ==
    /\ UNCHANGED <<auth, inflight>>
    /\ resp' = Response("BoardRetrieve", u, b, EmptyBody, BoardGetObject(u, b), <<>>)
    /\ UNCHANGED db

\* mutant: the ids sent are not resolved
ValidatePatchMembersUnchecked(body) == TRUE

\* BoardPatchSerializer.members, a PrimaryKeyRelatedField(many=True) over
\* User.objects.all(): every pk sent must resolve to a user
ValidatePatchMembers(body) ==
    ~Has(body, "members") \/ Range(body.members) \subseteq Users

\* mutant: the ids sent are added to the member set instead of replacing it
UpdateBoardMerge(b, validated_data) ==
    LET titled == IF Has(validated_data, "title")
                  THEN [b EXCEPT !.title = validated_data.title] ELSE b
    IN IF Has(validated_data, "members")
       THEN [titled EXCEPT !.members = @ \cup Range(validated_data.members)]
       ELSE titled

\* BoardPatchSerializer.update
UpdateBoard(b, validated_data) ==
    LET titled == IF Has(validated_data, "title")
                  THEN [b EXCEPT !.title = validated_data.title] ELSE b
    IN IF Has(validated_data, "members")
       THEN [titled EXCEPT !.members = Range(validated_data.members)]
       ELSE titled

\* Board.title, a required field of BoardPatchSerializer: a PUT
\* (partial=False) must carry it, a PATCH need not
ValidatePatchTitle(method, body) == method = "PATCH" \/ Has(body, "title")

\* BoardDetailUpdateView, PUT and PATCH: get_object, then the serializer's
\* validation, then BoardPatchSerializer.update
BoardUpdate(u, b, method, body) ==
    LET access == BoardGetObject(u, b)
        result == IF access # OK THEN access
                  ELSE IF ~ValidatePatchTitle(method, body) THEN ValidationError
                  ELSE IF ~ValidatePatchMembers(body) THEN ValidationError
                  ELSE OK
    IN /\ UNCHANGED <<auth, inflight>>
       /\ resp' = Response("BoardUpdate", u, b, body, result, <<>>)
       /\ IF result = OK
          THEN /\ boards' = [boards EXCEPT ![b] = UpdateBoard(@, body)]
               /\ UNCHANGED <<tasks, comments, nextBoardId, nextTaskId, nextCommentId>>
          ELSE UNCHANGED db

\* A worker that has answered its request, and the request it answered.
Finished(request) == [request EXCEPT !.pc = "finished"]

\* what BoardPatchSerializer.update does after the title, and what it does first
AfterTitle(body) == IF Has(body, "members") THEN "read" ELSE "finished"
FirstWrite(body) == IF Has(body, "title") THEN "save" ELSE AfterTitle(body)

\* BoardDetailUpdateView, PATCH, in the hands of worker w, as the steps other
\* requests can come between. First get_object and the serializer's
\* validation, which read the board row and the users.
BoardUpdateBegin(w, u, b, body) ==
    LET access == BoardGetObject(u, b)
        result == IF access # OK THEN access
                  ELSE IF ~ValidatePatchMembers(body) THEN ValidationError
                  ELSE OK
        request == [op |-> "BoardUpdate", user |-> u, target |-> b, body |-> body,
                    pc |-> FirstWrite(body), old |-> {}]
    IN /\ inflight[w] = Idle
       /\ UNCHANGED <<db, auth>>
       /\ IF result = OK /\ request.pc # "finished"
          THEN /\ inflight' = [inflight EXCEPT ![w] = request]
               /\ UNCHANGED resp
          ELSE /\ resp' = Response("BoardUpdate", u, b, body, result, <<>>)
               /\ UNCHANGED inflight

\* BoardPatchSerializer.update: instance.title = ...; instance.save()
BoardUpdateSave(w) ==
    LET request == inflight[w]
    IN /\ request.op = "BoardUpdate" /\ request.pc = "save"
       /\ boards' = [boards EXCEPT ![request.target].title = request.body.title]
       /\ UNCHANGED <<tasks, comments, nextBoardId, nextTaskId, nextCommentId, auth>>
       /\ inflight' = [inflight EXCEPT ![w] = [request EXCEPT !.pc = AfterTitle(request.body)]]
       /\ IF AfterTitle(request.body) = "finished"
          THEN resp' = Response("BoardUpdate", request.user, request.target,
                                request.body, OK, <<>>)
          ELSE UNCHANGED resp

\* instance.members.set(members): the manager reads the ids now related ...
MembersSetRead(w) ==
    LET request == inflight[w]
    IN /\ request.op = "BoardUpdate" /\ request.pc = "read"
       /\ inflight' = [inflight EXCEPT ![w].old = boards[request.target].members,
                                       ![w].pc = "write"]
       /\ UNCHANGED <<db, auth, resp>>

\* ... then removes those of them that were not sent and adds the ids sent
\* that were not among them
MembersSetWrite(w) ==
    LET request == inflight[w]
        sent == Range(request.body.members)
    IN /\ request.op = "BoardUpdate" /\ request.pc = "write"
       /\ boards' = [boards EXCEPT ![request.target].members =
                        (@ \ (request.old \ sent)) \cup (sent \ request.old)]
       /\ UNCHANGED <<tasks, comments, nextBoardId, nextTaskId, nextCommentId, auth>>
       /\ inflight' = [inflight EXCEPT ![w] = Finished(request)]
       /\ resp' = Response("BoardUpdate", request.user, request.target,
                           request.body, OK, <<>>)

\* on_delete=CASCADE of Task.board: the tasks that go with board b
TasksOfBoard(b) == {t \in DOMAIN tasks : tasks[t].board = b}

\* mutant: deleting a task leaves its comments behind
CommentsOfTasksNoCascade(ts) == {}

\* on_delete=CASCADE of TaskComment.task: the comments that go with tasks ts
CommentsOfTasks(ts) == {c \in DOMAIN comments : comments[c].task \in ts}

\* mutant: the owner test is forgotten
BoardPerformDestroyNoCheck(u, b) == OK

\* BoardDetailUpdateView.perform_destroy
BoardPerformDestroy(u, b) ==
    IF boards[b].owner # u THEN PermissionDenied ELSE OK

BoardDestroy(u, b) ==
    LET access == BoardGetObject(u, b)
        result == IF access # OK THEN access ELSE BoardPerformDestroy(u, b)
    IN /\ UNCHANGED <<auth, inflight>>
       /\ resp' = Response("BoardDestroy", u, b, EmptyBody, result, <<>>)
       /\ IF result = OK
          THEN /\ boards' = Drop(boards, {b})
               /\ tasks' = Drop(tasks, TasksOfBoard(b))
               /\ comments' = Drop(comments, CommentsOfTasks(TasksOfBoard(b)))
               /\ UNCHANGED <<nextBoardId, nextTaskId, nextCommentId>>
          ELSE UNCHANGED db

(* ----------------------------- tasks: POST /tasks/ ---------------------- *)
\* the membership test TaskCreateSerializer.validate applies to a candidate
\* assignee / reviewer
CreateEligible(b, uid) == uid \in boards[b].members

\* one round of the loop over ("assignee_id", "reviewer_id") in
\* TaskCreateSerializer.validate: OK, or the ValidationError it raises
CreateResolveUser(b, attrs, key_in) ==
    LET uid == IF Has(attrs, key_in) THEN attrs[key_in] ELSE NULL
    IN IF uid = NULL THEN OK
       ELSE IF uid \notin Users THEN ValidationError
       ELSE IF ~CreateEligible(b, uid) THEN ValidationError
       ELSE OK

\* the value the loop leaves in attrs["assignee"] / attrs["reviewer"]
CreateResolved(attrs, key_in) == IF Has(attrs, key_in) THEN attrs[key_in] ELSE NULL

\* the ChoiceFields the ModelSerializer builds for Task.status and
\* Task.priority: a value that is sent must be one of the choices
ChoiceFieldsValid(body) ==
    /\ Has(body, "status") => body.status \in Statuses
    /\ Has(body, "priority") => body.priority \in Priorities

\* TaskCreateSerializer.validate: `attrs.get(key) not in valid`; a key that
\* was not sent reads as None, which is no valid value
CreateChoiceValid(attrs, key, valid) == Has(attrs, key) /\ attrs[key] \in valid

\* TaskCreateSerializer: field validation, then validate(attrs)
TaskCreateValidate(u, body) ==
    IF ~Has(body, "board") \/ ~Has(body, "title") \/ ~ChoiceFieldsValid(body)
    THEN ValidationError
    ELSE IF body.board \notin DOMAIN boards THEN NotFound
    ELSE IF boards[body.board].owner # u /\ ~(u \in boards[body.board].members)
         THEN PermissionDenied
    ELSE IF CreateResolveUser(body.board, body, "assignee_id") # OK THEN ValidationError
    ELSE IF CreateResolveUser(body.board, body, "reviewer_id") # OK THEN ValidationError
    ELSE IF ~CreateChoiceValid(body, "status", Statuses) THEN ValidationError
    ELSE IF ~CreateChoiceValid(body, "priority", Priorities) THEN ValidationError
    ELSE OK

\* TaskCreateView.perform_create: the membership test, then save(created_by=user)
TaskPerformCreate(u, body) ==
    IF ~(u \in boards[body.board].members \/ boards[body.board].owner = u)
    THEN PermissionDenied
    ELSE OK

\* the row serializer.save(created_by=user) inserts
NewTask(u, body) ==
    [board |-> body.board, created_by |-> u,
     title |-> body.title,
     description |-> IF Has(body, "description") THEN body.description ELSE "",
     due_date |-> IF Has(body, "due_date") THEN body.due_date ELSE NULL,
     assignee |-> CreateResolved(body, "assignee_id"),
     reviewer |-> CreateResolved(body, "reviewer_id"),
     status |-> body.status, priority |-> body.priority]

TaskCreate(u, body) ==
    LET valid == TaskCreateValidate(u, body)
        result == IF valid # OK THEN valid ELSE TaskPerformCreate(u, body)
    IN IF result = OK
       THEN /\ tasks' = Put(tasks, nextTaskId, NewTask(u, body))
            /\ nextTaskId' = nextTaskId + 1
            /\ UNCHANGED <<auth, inflight>>
            /\ resp' = Response("TaskCreate", u, nextTaskId, body, OK, <<>>)
            /\ UNCHANGED <<boards, comments, nextBoardId, nextCommentId>>
       ELSE /\ UNCHANGED <<auth, inflight>>
            /\ resp' = Response("TaskCreate", u, NULL, body, result, <<>>)
            /\ UNCHANGED db

(* ------------- tasks: GET /tasks/assigned-to-me/ and /tasks/reviewing/ --- *)
\* Where ORDER BY due_date ASC puts the rows without a due_date: the store's
\* default, which is last.
NullsLast == TRUE

\* order_by('due_date', 'id')
TaskBefore(t1, t2) ==
    LET d1 == tasks[t1].due_date
        d2 == tasks[t2].due_date
    IN IF d1 = d2 THEN t1 < t2
       ELSE IF d1 = NULL THEN ~NullsLast
       ELSE IF d2 = NULL THEN NullsLast
       ELSE d1 < d2

RECURSIVE TasksOrdered(_)
TasksOrdered(S) ==
    IF S = {} THEN <<>>
    ELSE LET first == CHOOSE t \in S : \A x \in S \ {t} : TaskBefore(t, x)
         IN <<first>> \o TasksOrdered(S \ {first})

\* mutant: ordered by id alone
AssignedTasksQueryById(u) == SortedSeq({t \in DOMAIN tasks : tasks[t].assignee = u})

\* AssignedTasksView.get_queryset
AssignedTasksQuery(u) == TasksOrdered({t \in DOMAIN tasks : tasks[t].assignee = u})

\* mutant: only the tasks of boards the user still owns or is a member of
ReviewingTasksQueryOnBoard(u) ==
    TasksOrdered({t \in DOMAIN tasks :
        /\ tasks[t].reviewer = u
        /\ (boards[tasks[t].board].owner = u \/ u \in boards[tasks[t].board].members)})

\* ReviewingTasksView.get_queryset
ReviewingTasksQuery(u) == TasksOrdered({t \in DOMAIN tasks : tasks[t].reviewer = u})

AssignedTasks(u) ==
    /\ UNCHANGED <<auth, inflight>>
    /\ resp' = Response("AssignedTasks", u, NULL, EmptyBody, OK, AssignedTasksQuery(u))
    /\ UNCHANGED db

ReviewingTasks(u) ==
    /\ UNCHANGED <<auth, inflight>>
    /\ resp' = Response("ReviewingTasks", u, NULL, EmptyBody, OK, ReviewingTasksQuery(u))
    /\ UNCHANGED db

(* ------------------ tasks: GET/PUT/PATCH/DELETE /tasks/{id}/ ------------ *)
\* TaskDetailUpdateView.get_object
TaskGetObject(u, t) ==
    IF t \notin DOMAIN tasks THEN NotFound
    ELSE IF ~(boards[tasks[t].board].owner = u \/ u \in boards[tasks[t].board].members)
         THEN PermissionDenied
    ELSE OK

TaskRetrieve(u, t) ==
    /\ UNCHANGED <<auth, inflight>>
    /\ resp' = Response("TaskRetrieve", u, t, EmptyBody, TaskGetObject(u, t), <<>>)
    /\ UNCHANGED db

\* mutant: any existing user is eligible
UpdateEligibleAny(b, uid) == TRUE

\* the membership test resolve_user applies to a candidate assignee / reviewer
UpdateEligible(b, uid) == boards[b].owner = uid \/ uid \in boards[b].members

\* TaskUpdateSerializer.validate.resolve_user: OK, or the ValidationError it raises
UpdateResolveUser(b, attrs, field_in) ==
    IF ~Has(attrs, field_in) THEN OK
    ELSE IF attrs[field_in] = NULL THEN OK
    ELSE IF attrs[field_in] \notin Users THEN ValidationError
    ELSE IF ~UpdateEligible(b, attrs[field_in]) THEN ValidationError
    ELSE OK

\* TaskUpdateSerializer.validate: `key in attrs and attrs[key] not in valid`
UpdateChoiceValid(attrs, key, valid) == Has(attrs, key) => attrs[key] \in valid

\* TaskUpdateSerializer: field validation, then validate(attrs)
TaskUpdateValidate(t, body) ==
    IF ~ChoiceFieldsValid(body) THEN ValidationError
    ELSE IF UpdateResolveUser(tasks[t].board, body, "assignee_id") # OK THEN ValidationError
    ELSE IF UpdateResolveUser(tasks[t].board, body, "reviewer_id") # OK THEN ValidationError
    ELSE IF ~UpdateChoiceValid(body, "status", Statuses) THEN ValidationError
    ELSE IF ~UpdateChoiceValid(body, "priority", Priorities) THEN ValidationError
    ELSE OK

\* mutant: an assignee_id / reviewer_id that was not sent clears the field, as
\* the creation's attrs.pop(key, None) would
UpdateTaskClearsAbsent(task, body) ==
    [task EXCEPT
        !.title = IF Has(body, "title") THEN body.title ELSE @,
        !.description = IF Has(body, "description") THEN body.description ELSE @,
        !.due_date = IF Has(body, "due_date") THEN body.due_date ELSE @,
        !.status = IF Has(body, "status") THEN body.status ELSE @,
        !.priority = IF Has(body, "priority") THEN body.priority ELSE @,
        !.assignee = IF Has(body, "assignee_id") THEN body.assignee_id ELSE NULL,
        !.reviewer = IF Has(body, "reviewer_id") THEN body.reviewer_id ELSE NULL]

\* TaskUpdateSerializer.update: only the fields that were sent change
UpdateTask(task, body) ==
    [task EXCEPT
        !.title = IF Has(body, "title") THEN body.title ELSE @,
        !.description = IF Has(body, "description") THEN body.description ELSE @,
        !.due_date = IF Has(body, "due_date") THEN body.due_date ELSE @,
        !.status = IF Has(body, "status") THEN body.status ELSE @,
        !.priority = IF Has(body, "priority") THEN body.priority ELSE @,
        !.assignee = IF Has(body, "assignee_id") THEN body.assignee_id ELSE @,
        !.reviewer = IF Has(body, "reviewer_id") THEN body.reviewer_id ELSE @]

\* Task.title, a required field of TaskUpdateSerializer: a PUT
\* (partial=False) must carry it, a PATCH need not
ValidateUpdateTitle(method, body) == method = "PATCH" \/ Has(body, "title")

\* TaskDetailUpdateView, PUT and PATCH: get_object, then the serializer's
\* validation, then TaskUpdateSerializer.update
TaskUpdate(u, t, method, body) ==
    LET access == TaskGetObject(u, t)
        result == IF access # OK THEN access
                  ELSE IF ~ValidateUpdateTitle(method, body) THEN ValidationError
                  ELSE TaskUpdateValidate(t, body)
    IN /\ UNCHANGED <<auth, inflight>>
       /\ resp' = Response("TaskUpdate", u, t, body, result, <<>>)
       /\ IF result = OK
          THEN /\ tasks' = [tasks EXCEPT ![t] = UpdateTask(@, body)]
               /\ UNCHANGED <<boards, comments, nextBoardId, nextTaskId, nextCommentId>>
          ELSE UNCHANGED db

\* TaskDetailUpdateView, PATCH, in the hands of worker w, as the steps other
\* requests can come between: get_object, which loads the task row, and the
\* serializer's validation ...
TaskUpdateBegin(w, u, t, body) ==
    LET access == TaskGetObject(u, t)
        result == IF access # OK THEN access ELSE TaskUpdateValidate(t, body)
    IN /\ inflight[w] = Idle
       /\ UNCHANGED <<db, auth>>
       /\ IF result = OK
          THEN /\ inflight' = [inflight EXCEPT ![w] =
                                [op |-> "TaskUpdate", user |-> u, target |-> t,
                                 body |-> body, pc |-> "save", instance |-> tasks[t]]]
               /\ UNCHANGED resp
          ELSE /\ resp' = Response("TaskUpdate", u, t, body, result, <<>>)
               /\ UNCHANGED inflight

\* ... and TaskUpdateSerializer.update: the fields sent are set on the
\* instance loaded and instance.save() writes every column of the row
TaskUpdateSave(w) ==
    LET request == inflight[w]
    IN /\ request.op = "TaskUpdate" /\ request.pc = "save"
       /\ tasks' = [tasks EXCEPT ![request.target] = UpdateTask(request.instance, request.body)]
       /\ UNCHANGED <<boards, comments, nextBoardId, nextTaskId, nextCommentId, auth>>
       /\ inflight' = [inflight EXCEPT ![w] = Finished(request)]
       /\ resp' = Response("TaskUpdate", request.user, request.target,
                           request.body, OK, <<>>)

\* mutant: only the board owner may delete, the creator test is forgotten
TaskPerformDestroyOwnerOnly(u, t) ==
    IF ~(boards[tasks[t].board].owner = u) THEN PermissionDenied ELSE OK

\* TaskDetailUpdateView.perform_destroy
TaskPerformDestroy(u, t) ==
    IF ~(tasks[t].created_by = u \/ boards[tasks[t].board].owner = u)
    THEN PermissionDenied
    ELSE OK

TaskDestroy(u, t) ==
    LET access == TaskGetObject(u, t)
        result == IF access # OK THEN access ELSE TaskPerformDestroy(u, t)
    IN /\ UNCHANGED <<auth, inflight>>
       /\ resp' = Response("TaskDestroy", u, t, EmptyBody, result, <<>>)
       /\ IF result = OK
          THEN /\ tasks' = Drop(tasks, {t})
               /\ comments' = Drop(comments, CommentsOfTasks({t}))
               /\ UNCHANGED <<boards, nextBoardId, nextTaskId, nextCommentId>>
          ELSE UNCHANGED db

(* ------------------ comments: GET/POST /tasks/{id}/comments/ ------------ *)
\* mutant: only members pass, the owner test is forgotten
GetTaskOr404CheckedMembersOnly(u, t) ==
    IF t \notin DOMAIN tasks THEN NotFound
    ELSE IF ~(u \in boards[tasks[t].board].members) THEN PermissionDenied
    ELSE OK

\* TaskCommentListCreateView._get_task_or_404_checked
GetTaskOr404Checked(u, t) ==
    IF t \notin DOMAIN tasks THEN NotFound
    ELSE IF ~(boards[tasks[t].board].owner = u \/ u \in boards[tasks[t].board].members)
         THEN PermissionDenied
    ELSE OK

\* order_by("created_at", "id"): comment c1 comes before comment c2
CommentBefore(c1, c2) ==
    \/ comments[c1].created_at < comments[c2].created_at
    \/ comments[c1].created_at = comments[c2].created_at /\ c1 < c2

\* the comments S as a sequence, first the one that the others come after
RECURSIVE CommentsOrdered(_)
CommentsOrdered(S) ==
    IF S = {} THEN <<>>
    ELSE LET first == CHOOSE c \in S : \A o \in S \ {c} : CommentBefore(c, o)
         IN <<first>> \o CommentsOrdered(S \ {first})

\* mutant: the newest comment comes first
RECURSIVE CommentsNewestFirst(_)
CommentsNewestFirst(S) ==
    IF S = {} THEN <<>>
    ELSE LET last == CHOOSE c \in S : \A o \in S \ {c} : CommentBefore(c, o)
         IN CommentsNewestFirst(S \ {last}) \o <<last>>
CommentListQueryNewestFirst(t) ==
    CommentsNewestFirst({c \in DOMAIN comments : comments[c].task = t})

\* TaskCommentListCreateView.get_queryset
CommentListQuery(t) == CommentsOrdered({c \in DOMAIN comments : comments[c].task = t})

CommentList(u, t) ==
    LET result == GetTaskOr404Checked(u, t)
    IN /\ UNCHANGED <<auth, inflight>>
       /\ resp' = Response("CommentList", u, t, EmptyBody, result,
                           IF result = OK THEN CommentListQuery(t) ELSE <<>>)
       /\ UNCHANGED db

\* str.strip(): a text is a sequence of characters
Whitespace == {" "}
RECURSIVE LStrip(_)
LStrip(s) == IF s # <<>> /\ Head(s) \in Whitespace THEN LStrip(Tail(s)) ELSE s
RECURSIVE RStrip(_)
RStrip(s) ==
    IF s # <<>> /\ s[Len(s)] \in Whitespace THEN RStrip(SubSeq(s, 1, Len(s) - 1)) ELSE s
Strip(s) == RStrip(LStrip(s))

\* TaskCommentSerializer.validate_content
ValidateContent(value) ==
    IF value = <<>> \/ Strip(value) = <<>> THEN ValidationError ELSE OK

\* TaskComment.created_at (auto_now_add): the clock does not run backwards,
\* so a new comment gets the time of the latest comment or a later one
CreatedAtNow ==
    IF DOMAIN comments = {} THEN {1}
    ELSE LET latest == CHOOSE x \in {comments[c].created_at : c \in DOMAIN comments} :
                          \A c \in DOMAIN comments : comments[c].created_at <= x
         IN {latest, latest + 1}

\* TaskCommentSerializer.content, the CharField built for TaskComment.content:
\* the text is trimmed, and what is left must not be blank
ContentField(body) ==
    IF ~Has(body, "content") THEN ValidationError
    ELSE IF Strip(body.content) = <<>> THEN ValidationError
    ELSE OK

\* the serializer is validated first (the field, then validate_content on
\* the trimmed text); perform_create then checks the task and saves
CommentCreate(u, t, body) ==
    LET valid == IF ContentField(body) # OK THEN ValidationError
                 ELSE ValidateContent(Strip(body.content))
        result == IF valid # OK THEN valid ELSE GetTaskOr404Checked(u, t)
    IN IF result = OK
       THEN /\ \E now \in CreatedAtNow :
                 comments' = Put(comments, nextCommentId,
                                 [task |-> t, author |-> u,
                                  content |-> Strip(body.content), created_at |-> now])
            /\ nextCommentId' = nextCommentId + 1
            /\ UNCHANGED <<auth, inflight>>
            /\ resp' = Response("CommentCreate", u, t, body, OK, <<nextCommentId>>)
            /\ UNCHANGED <<boards, tasks, nextBoardId, nextTaskId>>
       ELSE /\ UNCHANGED <<auth, inflight>>
            /\ resp' = Response("CommentCreate", u, t, body, result, <<>>)
            /\ UNCHANGED db

(* ----------- comments: DELETE /tasks/{task_id}/comments/{comment_id}/ --- *)
\* mutant: the comment is looked up by its id alone, not within the task
CommentGetObjectAnyTask(u, t, c) ==
    IF t \notin DOMAIN tasks THEN NotFound
    ELSE IF ~(c \in DOMAIN comments) THEN NotFound
    ELSE IF comments[c].author # u THEN PermissionDenied
    ELSE OK

\* TaskCommentDestroyView.get_object
CommentGetObject(u, t, c) ==
    IF t \notin DOMAIN tasks THEN NotFound
    ELSE IF ~(c \in DOMAIN comments /\ comments[c].task = t) THEN NotFound
    ELSE IF comments[c].author # u THEN PermissionDenied
    ELSE OK

CommentDestroy(u, t, c) ==
    LET result == CommentGetObject(u, t, c)
    IN /\ UNCHANGED <<auth, inflight>>
       /\ resp' = Response("CommentDestroy", u, t, EmptyBody, result, <<c>>)
       /\ IF result = OK
          THEN /\ comments' = Drop(comments, {c})
               /\ UNCHANGED <<boards, tasks, nextBoardId, nextTaskId, nextCommentId>>
          ELSE UNCHANGED db

(* ---------------- accounts: POST /registration/, POST /login/ ----------- *)
\* Text is a sequence of one-character strings.  An email is its part before
\* the "@" and its part after it: [local, domain].

\* the length of User.username, which RegistrationSerializer.create cuts to
UsernameMaxLength == 150

\* str.lower(), on the letters the requests use
LowerChar(c) == CASE c = "A" -> "a" [] c = "X" -> "x" [] OTHER -> c
Lower(text) == [i \in DOMAIN text |-> LowerChar(text[i])]

\* text[:n]
Take(text, n) == SubSeq(text, 1, IF Len(text) < n THEN Len(text) ELSE n)

\* str(i) for i >= 0
RECURSIVE Decimal(_)
Decimal(i) ==
    LET digit == <<"0", "1", "2", "3", "4", "5", "6", "7", "8", "9">>[(i % 10) + 1]
    IN IF i < 10 THEN <<digit>> ELSE Append(Decimal(i \div 10), digit)

\* mutant: the email lookup compares case-sensitively
EmailExact(e1, e2) == e1 = e2

\* the lookup email__iexact
EmailIExact(e1, e2) ==
    /\ Len(e1.local) = Len(e2.local)
    /\ Len(e1.domain) = Len(e2.domain)
    /\ Lower(e1.domain) = Lower(e2.domain)
    /\ Lower(e1.local) = Lower(e2.local)

\* the users User.objects.filter(email__iexact=email) finds
UsersByEmail(email) == {id \in DOMAIN accounts : EmailIExact(accounts[id].email, email)}

\* the passwords password_validation.validate_password refuses
WeakPasswords == {"w"}

\* the message of the ValidationError RegistrationSerializer raises, or OK:
\* the four fields are required, then validate(attrs)
RegistrationValidate(body) ==
    IF ~(\A f \in {"fullname", "email", "password", "repeated_password"} : Has(body, f))
    THEN "This field is required."
    ELSE IF body.password # body.repeated_password THEN "Passwords do not match."
    ELSE IF UsersByEmail(body.email) # {} THEN "Email is already in use."
    ELSE IF body.password \in WeakPasswords THEN "This password is too weak."
    ELSE OK

\* the username the loop of RegistrationSerializer.create tries in round i:
\* base, then base cut to make room for "_1", "_2", ...
UsernameCandidate(base, i) ==
    IF i = 0 THEN base
    ELSE LET suffix == <<"_">> \o Decimal(i)
         IN Take(base, UsernameMaxLength - Len(suffix)) \o suffix

UsernameExists(username) == \E id \in DOMAIN accounts : accounts[id].username = username

\* mutant: the loop is skipped, the base is taken whether or not it is free
DeriveUsernameNoLoop(email) == Take(email.local, UsernameMaxLength)

\* RegistrationSerializer.create: the first candidate no user has.  With n
\* users at most n candidates are taken, so the loop ends within n + 1 rounds.
DeriveUsername(email) ==
    LET base == Take(email.local, UsernameMaxLength)
        rounds == 0..Cardinality(DOMAIN accounts)
        first == CHOOSE i \in rounds :
                    /\ ~UsernameExists(UsernameCandidate(base, i))
                    /\ \A j \in rounds : j < i => UsernameExists(UsernameCandidate(base, j))
    IN UsernameCandidate(base, first)

\* RegistrationSerializer.create: the row create_user inserts; fullname is
\* the list of words fullname.split() yields, create_user lower-cases the
\* email's domain (normalize_email) and sets is_active
NewUser(body) ==
    [username |-> DeriveUsername(body.email),
     email |-> [local |-> body.email.local, domain |-> Lower(body.email.domain)],
     password |-> body.password,
     is_active |-> TRUE,
     first_name |-> IF body.fullname = <<>> THEN <<>> ELSE <<Head(body.fullname)>>,
     last_name |-> IF body.fullname = <<>> THEN <<>> ELSE Tail(body.fullname)]

TokensOf(uid) == {row \in tokens : row.user = uid}

\* mutant: a new token is made at every call
GetOrCreateTokenAlwaysNew(uid) == [key |-> nextTokenKey, user |-> uid]

\* Token.objects.get_or_create(user=user): the user's row if there is one,
\* else a new row with a key not handed out before
GetOrCreateToken(uid) ==
    IF TokensOf(uid) # {} THEN CHOOSE row \in TokensOf(uid) : TRUE
    ELSE [key |-> nextTokenKey, user |-> uid]

\* RegistrationView.post
Register(body) ==
    LET error == RegistrationValidate(body)
    IN /\ UNCHANGED <<db, inflight>>
       /\ IF error # OK
          THEN /\ resp' = Response("Register", NULL, NULL, body, ValidationError, <<error>>)
               /\ UNCHANGED auth
          ELSE LET uid == nextUserId
                   token == GetOrCreateToken(uid)
               IN /\ accounts' = Put(accounts, uid, NewUser(body))
                  /\ nextUserId' = nextUserId + 1
                  /\ tokens' = tokens \cup {token}
                  /\ nextTokenKey' = IF token \in tokens THEN nextTokenKey
                                     ELSE nextTokenKey + 1
                  /\ resp' = Response("Register", NULL, uid, body, OK, <<token.key, uid>>)

\* RegistrationView.post in the hands of worker w, as the two steps other
\* requests can come between: serializer.is_valid, which reads the users ...
RegistrationIsValid(w, body) ==
    LET error == RegistrationValidate(body)
    IN /\ inflight[w] = Idle
       /\ UNCHANGED <<db, auth>>
       /\ IF error # OK
          THEN /\ resp' = Response("Register", NULL, NULL, body, ValidationError, <<error>>)
               /\ UNCHANGED inflight
          ELSE /\ inflight' = [inflight EXCEPT ![w] = [op |-> "Register", body |-> body]]
               /\ UNCHANGED resp

\* ... and serializer.save with Token.objects.get_or_create, which write
RegistrationSave(w) ==
    LET body == inflight[w].body
        uid == nextUserId
        token == GetOrCreateToken(uid)
    IN /\ inflight[w].op = "Register"
       /\ UNCHANGED db
       /\ accounts' = Put(accounts, uid, NewUser(body))
       /\ nextUserId' = nextUserId + 1
       /\ tokens' = tokens \cup {token}
       /\ nextTokenKey' = IF token \in tokens THEN nextTokenKey ELSE nextTokenKey + 1
       /\ inflight' = [inflight EXCEPT ![w] = Idle]
       /\ resp' = Response("Register", NULL, uid, body, OK, <<token.key, uid>>)

\* LoginSerializer.validate: the message of the ValidationError it raises, or
\* OK; with several users under the email the first one is taken
LoginUser(email) == CHOOSE id \in UsersByEmail(email) : \A o \in UsersByEmail(email) : id <= o

LoginValidate(body) ==
    IF ~(Has(body, "email") /\ Has(body, "password")) THEN "This field is required."
    ELSE IF UsersByEmail(body.email) = {} THEN "Invalid email or password."
    ELSE LET user == accounts[LoginUser(body.email)]
         IN IF ~user.is_active THEN "User account is disabled."
            ELSE IF user.password # body.password THEN "Invalid email or password."
            ELSE OK

\* LoginView.post
Login(body) ==
    LET error == LoginValidate(body)
    IN /\ UNCHANGED <<db, inflight>>
       /\ IF error # OK
          THEN /\ resp' = Response("Login", NULL, NULL, body, ValidationError, <<error>>)
               /\ UNCHANGED auth
          ELSE LET uid == LoginUser(body.email)
                   token == GetOrCreateToken(uid)
               IN /\ tokens' = tokens \cup {token}
                  /\ nextTokenKey' = IF token \in tokens THEN nextTokenKey
                                     ELSE nextTokenKey + 1
                  /\ UNCHANGED <<accounts, nextUserId>>
                  /\ resp' = Response("Login", NULL, uid, body, OK, <<token.key, uid>>)

\* User.is_active, the flag LoginSerializer.validate reads, is cleared for a
\* user outside these views (by an administrator of the user directory)
Deactivate(uid) ==
    /\ uid \in DOMAIN accounts
    /\ accounts[uid].is_active
    /\ accounts' = [accounts EXCEPT ![uid].is_active = FALSE]
    /\ resp' = Response("Deactivate", NULL, uid, EmptyBody, OK, <<>>)
    /\ UNCHANGED <<db, tokens, nextUserId, nextTokenKey, inflight>>

(* ------------------------------ next state ------------------------------ *)
\* The board endpoints alone.  Member id lists name existing users, or carry
\* an id that resolves to no user, alone or after a valid one.
MemberListInputs == MemberLists(Users) \cup {<<NumUsers + 1>>, <<1, NumUsers + 1>>}

\* POST /boards/: title (required) and members; owner_id is a read-only field
BoardCreateBodies ==
    Bodies(Optional("title", {"A"}), Optional("members", MemberListInputs))
        \cup Bodies(Required("title", {"A"}), Required("owner_id", Users))

\* PUT / PATCH /boards/{id}/: a member list of at most one id, or a title
BoardAccessBodies ==
    Required("members", {l \in MemberListInputs : Len(l) <= 1})
        \cup Optional("title", {"A"})

NextBoards ==
    \/ \E u \in Users : BoardList(u)
    \/ \E u \in Users, body \in BoardCreateBodies :
        nextBoardId <= MaxBoards /\ BoardCreate(u, body)
    \/ \E u \in Users, b \in IdInputs(MaxBoards) : BoardRetrieve(u, b)
    \/ \E u \in Users, b \in IdInputs(MaxBoards), method \in {"PUT", "PATCH"},
          body \in BoardAccessBodies :
        BoardUpdate(u, b, method, body)
    \/ \E u \in Users, b \in IdInputs(MaxBoards) : BoardDestroy(u, b)

SpecBoards == Init /\ [][NextBoards]_vars

\* Boards and tasks.  User ids are interchangeable in every handler, so the
\* board is created by user 1; its member set is replaced freely, and tasks
\* are created and updated with every candidate assignee and reviewer.
BoardCreators == {1}

TaskCreateBodies ==
    Bodies(Bodies(Bodies(Required("board", IdInputs(MaxTaskBoards)), Required("title", {"A"})),
                  Bodies(Required("status", {"to-do"}), Required("priority", {"medium"}))),
           Bodies(Optional("assignee_id", UserIdInputs),
                  Optional("reviewer_id", UserIdInputs)))

TaskUpdateBodies ==
    Optional("assignee_id", {NULL} \cup UserIdInputs)
        \cup Optional("reviewer_id", {NULL} \cup UserIdInputs)

NextTasks ==
    \/ \E u \in BoardCreators, body \in Required("title", {"A"}) :
        nextBoardId <= MaxTaskBoards /\ BoardCreate(u, body)
    \/ \E u \in Users, b \in IdInputs(MaxTaskBoards),
          body \in Required("members", MemberLists(Users)) :
        BoardUpdate(u, b, "PATCH", body)
    \/ \E u \in Users, b \in IdInputs(MaxTaskBoards) : BoardDestroy(u, b)
    \/ \E u \in Users, body \in TaskCreateBodies :
        nextTaskId <= MaxTasks /\ TaskCreate(u, body)
    \/ \E u \in Users : AssignedTasks(u)
    \/ \E u \in Users : ReviewingTasks(u)
    \/ \E u \in Users, t \in IdInputs(MaxTasks) : TaskRetrieve(u, t)
    \/ \E u \in Users, t \in IdInputs(MaxTasks), body \in TaskUpdateBodies :
        TaskUpdate(u, t, "PATCH", body)
    \/ \E u \in Users, t \in IdInputs(MaxTasks) : TaskDestroy(u, t)

SpecTasks == Init /\ [][NextTasks]_vars

\* Boards, tasks and comments together: two tasks on a board whose member
\* set is replaced by lists of at most one user, and comments on them.
ShortMemberLists == {l \in MemberLists(Users) : Len(l) <= 1}

CommentTaskBodies ==
    Bodies(Bodies(Bodies(Required("board", IdInputs(MaxTaskBoards)), Required("title", {"A"})),
                  Bodies(Required("status", {"to-do"}), Required("priority", {"medium"}))),
           {EmptyBody, [assignee_id |-> 1, reviewer_id |-> 1]})

CommentBodies == Required("content", {<<"o", "k">>, <<" ", " ">>})

NextComments ==
    \/ \E u \in BoardCreators, body \in Required("title", {"A"}) :
        nextBoardId <= MaxTaskBoards /\ BoardCreate(u, body)
    \/ \E u \in Users, b \in IdInputs(MaxTaskBoards),
          body \in Required("members", ShortMemberLists) :
        BoardUpdate(u, b, "PATCH", body)
    \/ \E u \in Users, b \in IdInputs(MaxTaskBoards) : BoardDestroy(u, b)
    \/ \E u \in Users, body \in CommentTaskBodies :
        nextTaskId <= MaxCommentTasks /\ TaskCreate(u, body)
    \/ \E u \in Users : AssignedTasks(u)
    \/ \E u \in Users : ReviewingTasks(u)
    \/ \E u \in Users, t \in IdInputs(MaxCommentTasks) : TaskRetrieve(u, t)
    \/ \E u \in Users, t \in IdInputs(MaxCommentTasks),
          body \in Optional("assignee_id", {NULL}) :
        TaskUpdate(u, t, "PATCH", body)
    \/ \E u \in Users, t \in IdInputs(MaxCommentTasks) : TaskDestroy(u, t)
    \/ \E u \in Users, t \in IdInputs(MaxCommentTasks) : CommentList(u, t)
    \/ \E u \in Users, t \in IdInputs(MaxCommentTasks), body \in CommentBodies :
        nextCommentId <= MaxComments /\ CommentCreate(u, t, body)
    \/ \E u \in Users, t \in IdInputs(MaxCommentTasks), c \in IdInputs(MaxComments) :
        CommentDestroy(u, t, c)

SpecComments == Init /\ [][NextComments]_vars

\* One board, created by any user, renamed and re-staffed by PUT and PATCH
\* with member lists that name one user, two users, a user twice and an id
\* that resolves to no user, and one task on it.
BoardPatchBodies ==
    Bodies(Optional("title", {"B"}),
           Optional("members", ShortMemberLists
                                 \cup {<<1, 2>>, <<2, 3>>, <<2, 2>>, <<NumUsers + 1>>}))

NextBoardEdit ==
    \/ \E u \in Users, body \in Bodies(Required("title", {"A"}),
                                          Optional("members", ShortMemberLists)) :
        nextBoardId <= MaxTaskBoards /\ BoardCreate(u, body)
    \/ \E u \in Users, b \in IdInputs(MaxTaskBoards) : BoardRetrieve(u, b)
    \/ \E u \in Users, b \in IdInputs(MaxTaskBoards), method \in {"PUT", "PATCH"},
          body \in BoardPatchBodies :
        BoardUpdate(u, b, method, body)
    \/ \E u \in Users, b \in IdInputs(MaxTaskBoards) : BoardDestroy(u, b)
    \/ \E u \in Users, body \in CommentTaskBodies :
        nextTaskId <= MaxTasks /\ TaskCreate(u, body)
    \/ \E u \in Users, t \in IdInputs(MaxTasks) : TaskRetrieve(u, t)

SpecBoardEdit == Init /\ [][NextBoardEdit]_vars

(* ------------------------------ properties ------------------------------ *)
\* the relation of the authorization table: owner of the board or one of its
\* current members
IsOwnerOrMember(u, b) == boards[b].owner = u \/ u \in boards[b].members

\* number of times x occurs in the sequence s
Occurrences(s, x) == Cardinality({i \in DOMAIN s : s[i] = x})

\* C1: a GET or PUT/PATCH of an existing board by user u passes the access
\* check exactly when u is the board's owner or in its member set at the time
\* of the request (a retrieve then succeeds, an update succeeds unless its body
\* is invalid); otherwise it fails with PermissionDenied and changes nothing.
\* A user whom a request just dropped from the members is denied by the check
\* in the state that request leaves.
C1_BoardAccess ==
    [][/\ (resp'.op \in {"BoardRetrieve", "BoardUpdate"}
              /\ resp'.target \in DOMAIN boards) =>
            IF IsOwnerOrMember(resp'.user, resp'.target)
            THEN resp'.result \in
                    (IF resp'.op = "BoardRetrieve" THEN {OK} ELSE {OK, ValidationError})
            ELSE resp'.result = PermissionDenied /\ UNCHANGED db
       /\ \A u \in Users, b \in DOMAIN boards \cap DOMAIN boards' :
            (u \in boards[b].members /\ u \notin boards'[b].members
                /\ u # boards'[b].owner) =>
              BoardGetObject(u, b)' = PermissionDenied]_vars

\* C1 witness: a retrieve of an existing board was denied to a user who is
\* neither owner nor member, on a board whose member set has been replaced
\* (its owner, a member since creation, is no longer in it).
C1_Witness ==
    /\ resp.op = "BoardRetrieve"
    /\ resp.result = PermissionDenied
    /\ resp.target \in DOMAIN boards
    /\ ~IsOwnerOrMember(resp.user, resp.target)
    /\ boards[resp.target].owner \notin boards[resp.target].members

\* the board ids of a board list response, in its order
ListedIds(data) == [i \in DOMAIN data |-> data[i].id]

\* C6: the list returned by GET /boards/ to user u holds every board that u
\* owns or is a member of exactly once, and no other board.
C6_BoardListExact ==
    resp.op = "BoardList" =>
        /\ \A b \in DOMAIN boards :
              Occurrences(ListedIds(resp.data), b) =
                  IF IsOwnerOrMember(resp.user, b) THEN 1 ELSE 0
        /\ Range(ListedIds(resp.data)) \subseteq DOMAIN boards

\* C6 witness: a list holding two boards, of one of which the requester is
\* owner and member next to another member, of the other a member only.
C6_Witness ==
    /\ resp.op = "BoardList"
    /\ Len(resp.data) = 2
    /\ \E b \in DOMAIN boards :
          /\ boards[b].owner = resp.user
          /\ resp.user \in boards[b].members
          /\ Cardinality(boards[b].members) >= 2
    /\ \E b \in DOMAIN boards :
          boards[b].owner # resp.user /\ resp.user \in boards[b].members

\* the member ids a POST /boards/ body carries
BodyMembers(body) == IF Has(body, "members") THEN Range(body.members) ELSE {}

\* C10: a successful board creation by u with member id list M stores a board
\* whose owner is u, whatever the body says, and whose members are the
\* distinct ids of M together with u; the member_count of the response is the
\* size of that set.
C10_BoardCreateMembers ==
    [][(resp'.op = "BoardCreate" /\ resp'.result = OK) =>
        LET u == resp'.user
            M == BodyMembers(resp'.body)
        IN /\ DOMAIN boards' = DOMAIN boards \cup {nextBoardId}
           /\ nextBoardId \notin DOMAIN boards
           /\ boards'[nextBoardId].owner = u
           /\ boards'[nextBoardId].members = M \cup {u}
           /\ resp'.data = <<nextBoardId, u, Cardinality(M \cup {u})>>]_vars

\* C10 witness: a board was created from a list of two distinct members that
\* does not name the requester; the response counts three members.
C10_Witness ==
    /\ resp.op = "BoardCreate"
    /\ resp.result = OK
    /\ resp.data[3] = 3
    /\ Has(resp.body, "members")
    /\ resp.user \notin Range(resp.body.members)
    /\ resp.target \in DOMAIN boards
    /\ boards[resp.target].owner = resp.user
    /\ Cardinality(boards[resp.target].members \ {resp.user}) = 2

\* a text made of blanks only (the empty text included)
IsBlank(text) == \A i \in DOMAIN text : text[i] = " "

C4_BoardDelete ==
    [][/\ (resp'.op = "BoardDestroy" /\ resp'.target \in DOMAIN boards) =>
            IF boards[resp'.target].owner = resp'.user
            THEN resp'.result = OK /\ resp'.target \notin DOMAIN boards'
            ELSE resp'.result = PermissionDenied /\ UNCHANGED db
       /\ \A b \in DOMAIN boards \ DOMAIN boards' :
            /\ resp'.op = "BoardDestroy"
            /\ resp'.target = b
            /\ resp'.user = boards[b].owner]_vars

\* C4 witness: a member who is not the owner was denied the deletion of a
\* board that has a task with a comment.
C4_Witness ==
    /\ resp.op = "BoardDestroy"
    /\ resp.result = PermissionDenied
    /\ resp.target \in DOMAIN boards
    /\ resp.user \in boards[resp.target].members
    /\ \E c \in DOMAIN comments : tasks[comments[c].task].board = resp.target

\* C5: DELETE of comment c under task t is NotFound when t does not exist or
\* c is not a comment of t (also when c belongs to another task); otherwise it
\* removes c when the requester is its author, whether or not the requester
\* still has access to the board, and fails with PermissionDenied, the
\* comment left in place, for every other requester.
C5_CommentDelete ==
    [][resp'.op = "CommentDestroy" =>
        LET u == resp'.user
            t == resp'.target
            c == resp'.data[1]
        IN IF t \notin DOMAIN tasks \/ c \notin DOMAIN comments
           THEN resp'.result = NotFound /\ UNCHANGED db
           ELSE IF comments[c].task # t
           THEN resp'.result = NotFound /\ UNCHANGED db
           ELSE IF comments[c].author = u
           THEN /\ resp'.result = OK
                /\ comments' = Drop(comments, {c})
                /\ UNCHANGED <<boards, tasks>>
           ELSE resp'.result = PermissionDenied /\ UNCHANGED db]_vars

\* C5 witness: an author who is neither owner nor member of the task's board
\* deleted the comment.
C5_Witness ==
    /\ resp.op = "CommentDestroy"
    /\ resp.result = OK
    /\ resp.target \in DOMAIN tasks
    /\ ~IsOwnerOrMember(resp.user, tasks[resp.target].board)

\* a candidate assignee / reviewer the claim calls ineligible for board b: it
\* resolves to no user, or to a user who is neither owner nor member
Ineligible(b, uid) ==
    uid \notin Users \/ (b \in DOMAIN boards /\ ~IsOwnerOrMember(uid, b))

\* the body names an ineligible assignee or reviewer for board b
NamesIneligible(body, b) ==
    \E f \in {"assignee_id", "reviewer_id"} :
        Has(body, f) /\ body[f] # NULL /\ Ineligible(b, body[f])

\* C7: a task creation or update whose assignee_id or reviewer_id resolves to
\* no user, or to a user who is neither owner nor member of the task's board,
\* never succeeds and stores nothing; when the board / task exists and the
\* requester has access to it, the failure is a ValidationError.
C7_IneligibleRejected ==
    [][/\ (resp'.op = "TaskCreate" /\ NamesIneligible(resp'.body, resp'.body.board)) =>
            /\ resp'.result # OK
            /\ UNCHANGED db
            /\ (resp'.body.board \in DOMAIN boards
                  /\ IsOwnerOrMember(resp'.user, resp'.body.board)) =>
                 resp'.result = ValidationError
       /\ (resp'.op = "TaskUpdate" /\ resp'.target \in DOMAIN tasks
              /\ NamesIneligible(resp'.body, tasks[resp'.target].board)) =>
            /\ resp'.result # OK
            /\ UNCHANGED db
            /\ IsOwnerOrMember(resp'.user, tasks[resp'.target].board) =>
                 resp'.result = ValidationError]_vars

\* C7 witness: an update naming as reviewer an existing user who is neither
\* owner nor member of the board was refused with a ValidationError.
C7_Witness ==
    /\ resp.op = "TaskUpdate"
    /\ resp.result = ValidationError
    /\ resp.target \in DOMAIN tasks
    /\ Has(resp.body, "reviewer_id")
    /\ resp.body.reviewer_id \in Users
    /\ ~IsOwnerOrMember(resp.body.reviewer_id, tasks[resp.target].board)

\* C8: task creation accepts every candidate assignee and reviewer that a
\* task update on the same board accepts, the board's owner in particular: a
\* creation by a user with access whose candidates all pass the update's
\* check succeeds.
C8_CreateAcceptsWhatUpdateAccepts ==
    [][(resp'.op = "TaskCreate"
          /\ resp'.body.board \in DOMAIN boards
          /\ IsOwnerOrMember(resp'.user, resp'.body.board)
          /\ UpdateResolveUser(resp'.body.board, resp'.body, "assignee_id") = OK
          /\ UpdateResolveUser(resp'.body.board, resp'.body, "reviewer_id") = OK) =>
        resp'.result = OK]_vars

\* referential integrity of the stored rows
Integrity ==
    /\ \A t \in DOMAIN tasks : tasks[t].board \in DOMAIN boards
    /\ \A c \in DOMAIN comments : comments[c].task \in DOMAIN tasks

\* what the read handlers return for the tasks ts and comments cs once they
\* are gone
Unreachable(ts, cs) ==
    /\ \A t \in ts, u \in Users :
          /\ TaskGetObject(u, t) = NotFound
          /\ GetTaskOr404Checked(u, t) = NotFound
          /\ t \notin Range(AssignedTasksQuery(u))
          /\ t \notin Range(ReviewingTasksQuery(u))
    /\ \A t \in DOMAIN tasks : Range(CommentListQuery(t)) \cap cs = {}

\* C9: every task's board and every comment's task exist in every state, and
\* a request that deletes a board leaves none of its tasks and none of their
\* comments: task retrieval and comment listing answer NotFound for them and
\* the assigned-to-me and reviewing lists do not hold them.
C9_Cascade ==
    [][/\ Integrity'
       /\ \A b \in DOMAIN boards \ DOMAIN boards' :
            /\ DOMAIN tasks' = DOMAIN tasks \ TasksOfBoard(b)
            /\ DOMAIN comments' =
                 DOMAIN comments \ {c \in DOMAIN comments : tasks[comments[c].task].board = b}
            /\ Unreachable(TasksOfBoard(b),
                           {c \in DOMAIN comments : tasks[comments[c].task].board = b})']_vars

\* C9 witness: a board was deleted after two tasks and a comment had been
\* created on it; no task and no comment is left.
C9_Witness ==
    /\ resp.op = "BoardDestroy"
    /\ resp.result = OK
    /\ nextTaskId = MaxCommentTasks + 1
    /\ nextCommentId > 1
    /\ DOMAIN tasks = {}
    /\ DOMAIN comments = {}


\* One board owned by user 1 with member 2, user 3 outside it, and one task:
\* created with or without title, status and priority, valid or not, then
\* updated by PUT and PATCH one field at a time, a few fields at once, and
\* with keys the serializer does not declare.
TaskEditCreateBodies ==
    Bodies(Bodies(Required("board", IdInputs(MaxTaskBoards)), Optional("title", {"A"})),
           Bodies(Bodies(Optional("status", {"review", "bogus"}),
                         Optional("priority", {"low", "bogus"})),
                  Optional("assignee_id", {2})))

TaskEditUpdateBodies ==
    Optional("title", {"B"})
        \cup Required("status", {"done", "bogus"})
        \cup Required("priority", {"high", "bogus"})
        \cup Required("assignee_id", {NULL, 1, NumUsers + 1})
        \cup Required("reviewer_id", {NULL, 2})
        \cup {[description |-> "d", due_date |-> 1],
              [status |-> "done", assignee_id |-> NULL],
              [title |-> "B", priority |-> "bogus"],
              [board |-> 2, created_by |-> 3]}

NextTaskEdit ==
    \/ \E u \in BoardCreators, body \in Bodies(Required("title", {"A"}),
                                                  Required("members", {<<2>>})) :
        nextBoardId <= MaxTaskBoards /\ BoardCreate(u, body)
    \/ \E u \in Users, body \in TaskEditCreateBodies :
        nextTaskId <= MaxTasks /\ TaskCreate(u, body)
    \/ \E u \in Users, t \in IdInputs(MaxTasks) : TaskRetrieve(u, t)
    \/ \E u \in Users, t \in IdInputs(MaxTasks), method \in {"PUT", "PATCH"},
          body \in TaskEditUpdateBodies :
        TaskUpdate(u, t, method, body)

SpecTaskEdit == Init /\ [][NextTaskEdit]_vars

\* Registration and login: at most MaxAccounts users, with emails that share
\* a local part, differ in letter case only, have a local part that looks
\* like a derived username, or have one longer than a username may be.
MaxAccounts == 3

LongLocal == [i \in 1..(UsernameMaxLength + 1) |-> "a"]

EmailInputs ==
    {[local |-> <<"a">>, domain |-> <<"x">>],
     [local |-> <<"A">>, domain |-> <<"X">>],
     [local |-> <<"a">>, domain |-> <<"y">>],
     [local |-> <<"a", "_", "1">>, domain |-> <<"y">>],
     [local |-> LongLocal, domain |-> <<"x">>],
     [local |-> LongLocal, domain |-> <<"y">>]}

RegistrationBodies ==
    {[fullname |-> <<"F", "L">>, email |-> e, password |-> p[1], repeated_password |-> p[2]] :
        e \in EmailInputs, p \in {<<"p", "p">>, <<"p", "q">>, <<"w", "w">>}}

LoginBodies ==
    {[email |-> e, password |-> p] :
        e \in EmailInputs \cup {[local |-> <<"b">>, domain |-> <<"x">>]}, p \in {"p", "q"}}

NextAuth ==
    \/ \E body \in RegistrationBodies : nextUserId <= MaxAccounts /\ Register(body)
    \/ \E body \in LoginBodies : Login(body)
    \/ \E uid \in 1..MaxAccounts : Deactivate(uid)

SpecAuth == Init /\ [][NextAuth]_vars

\* One board owned by user 1 with member 2, user 3 outside it, two tasks and
\* up to MaxThreadComments comments: content blank, empty, padded with blanks,
\* or sent with an author the client chose.
MaxThreadComments == 3

ThreadCommentBodies ==
    Required("content", {<<>>, <<" ", " ">>, <<" ", "o", " ">>})
        \cup {[content |-> <<"o">>, author |-> 3]}

NextCommentEdit ==
    \/ \E u \in BoardCreators, body \in Bodies(Required("title", {"A"}),
                                                  Required("members", {<<2>>})) :
        nextBoardId <= MaxTaskBoards /\ BoardCreate(u, body)
    \/ \E u \in BoardCreators, body \in CommentTaskBodies :
        nextTaskId <= MaxCommentTasks /\ TaskCreate(u, body)
    \/ \E u \in Users, t \in IdInputs(MaxCommentTasks) : CommentList(u, t)
    \/ \E u \in Users, t \in IdInputs(MaxCommentTasks), body \in ThreadCommentBodies :
        nextCommentId <= MaxThreadComments /\ CommentCreate(u, t, body)
    \/ \E u \in Users, t \in IdInputs(MaxCommentTasks), c \in IdInputs(MaxThreadComments) :
        CommentDestroy(u, t, c)

SpecCommentEdit == Init /\ [][NextCommentEdit]_vars

\* Boards with their counts: two boards of user 1 whose member sets are
\* replaced, and two tasks created, re-labelled and deleted on them, listed
\* for the owner, for members and for outsiders.
CountMemberLists == {<<>>, <<2>>, <<2, 3>>}

CountTaskBodies ==
    Bodies(Bodies(Required("board", 1..MaxBoards),
                  Required("title", {"A"})),
           {[status |-> "to-do", priority |-> "high"],
            [status |-> "done", priority |-> "low"]})

CountTaskUpdateBodies ==
    {[status |-> "to-do"], [status |-> "done"], [priority |-> "high"]}

NextBoardCounts ==
    \/ \E u \in BoardCreators, body \in Bodies(Required("title", {"A"}),
                                                  Required("members", CountMemberLists)) :
        nextBoardId <= MaxBoards /\ BoardCreate(u, body)
    \/ \E u \in BoardCreators, b \in 1..MaxBoards,
          body \in Required("members", CountMemberLists) :
        BoardUpdate(u, b, "PATCH", body)
    \/ \E u \in Users : BoardList(u)
    \/ \E u \in BoardCreators, body \in CountTaskBodies :
        nextTaskId <= MaxCommentTasks /\ TaskCreate(u, body)
    \/ \E u \in BoardCreators, t \in 1..MaxCommentTasks,
          body \in CountTaskUpdateBodies :
        TaskUpdate(u, t, "PATCH", body)
    \/ \E u \in BoardCreators, t \in 1..MaxCommentTasks :
        TaskDestroy(u, t)

SpecBoardCounts == Init /\ [][NextBoardCounts]_vars

\* The task lists: up to MaxListTasks tasks on one board of user 1, created
\* with and without a due date for user 2 as assignee or reviewer, re-dated,
\* unassigned and deleted, while membership replacements take user 2 off the
\* board.
MaxListTasks == 3

DueDates == {1, 2}

ListTaskBodies ==
    Bodies(Bodies(Bodies(Required("board", {1}), Required("title", {"A"})),
                  {[status |-> "to-do", priority |-> "medium"]}),
           Bodies(Optional("due_date", DueDates),
                  {[assignee_id |-> 2], [reviewer_id |-> 2]}))

ListTaskUpdateBodies == {[due_date |-> 2], [due_date |-> NULL], [assignee_id |-> NULL]}

NextTaskLists ==
    \/ \E u \in BoardCreators, body \in Bodies(Required("title", {"A"}),
                                                  Required("members", {<<2>>})) :
        nextBoardId <= MaxTaskBoards /\ BoardCreate(u, body)
    \/ \E u \in BoardCreators, body \in Required("members", {<<>>, <<2>>}) :
        BoardUpdate(u, 1, "PATCH", body)
    \/ \E u \in BoardCreators, body \in ListTaskBodies :
        nextTaskId <= MaxListTasks /\ TaskCreate(u, body)
    \/ \E u \in Users : AssignedTasks(u)
    \/ \E u \in Users : ReviewingTasks(u)
    \/ \E u \in BoardCreators, t \in 1..MaxListTasks, body \in ListTaskUpdateBodies :
        TaskUpdate(u, t, "PATCH", body)
    \/ \E u \in BoardCreators, t \in 1..MaxListTasks : TaskDestroy(u, t)

SpecTaskLists == Init /\ [][NextTaskLists]_vars

\* Registrations handled by NumWorkers workers at once, with emails that are
\* equal, equal but for letter case, or different.
RaceRegistrationBodies ==
    {body \in RegistrationBodies :
        /\ body.email.local \in {<<"a">>, <<"A">>}
        /\ body.password = "p"}

NextRegisterRace ==
    \/ \E w \in Workers, body \in RaceRegistrationBodies :
        /\ nextUserId + Cardinality({x \in Workers : inflight[x] # Idle}) <= MaxAccounts
        /\ RegistrationIsValid(w, body)
    \/ \E w \in Workers : RegistrationSave(w)
    \/ \E body \in LoginBodies : Login(body)

SpecRegisterRace == Init /\ [][NextRegisterRace]_vars

\* One board of user 1, and one PATCH of its members, with or without a
\* title, per worker, the workers running at once.
RaceBoardBodies ==
    Bodies(Optional("title", {"B", "C"}), Required("members", {<<2>>, <<3>>, <<2, 3>>}))
        \cup Required("title", {"B"})

NextBoardRace ==
    \/ \E u \in BoardCreators, body \in Bodies(Required("title", {"A"}),
                                                  Optional("members", {<<2>>})) :
        nextBoardId <= MaxTaskBoards /\ BoardCreate(u, body)
    \/ \E w \in Workers, u \in {1, 3}, b \in IdInputs(MaxTaskBoards), body \in RaceBoardBodies :
        BoardUpdateBegin(w, u, b, body)
    \/ \E w \in Workers : BoardUpdateSave(w)
    \/ \E w \in Workers : MembersSetRead(w)
    \/ \E w \in Workers : MembersSetWrite(w)

SpecBoardRace == Init /\ [][NextBoardRace]_vars

\* One task on the board of user 1, and one PATCH of it per worker, each of
\* one or two fields, the workers running at once.
RaceTaskBodies ==
    {[status |-> "done"], [priority |-> "high"], [title |-> "B"], [due_date |-> 1],
     [status |-> "review", assignee_id |-> 2], [priority |-> "low", reviewer_id |-> 2]}

NextTaskRace ==
    \/ \E u \in BoardCreators, body \in Bodies(Required("title", {"A"}),
                                                  Required("members", {<<2>>})) :
        nextBoardId <= MaxTaskBoards /\ BoardCreate(u, body)
    \/ \E u \in BoardCreators, body \in CommentTaskBodies :
        nextTaskId <= MaxTasks /\ TaskCreate(u, body)
    \/ \E w \in Workers, u \in Users, t \in IdInputs(MaxTasks), body \in RaceTaskBodies :
        TaskUpdateBegin(w, u, t, body)
    \/ \E w \in Workers : TaskUpdateSave(w)

SpecTaskRace == Init /\ [][NextTaskRace]_vars

\* Every kind of request, with bodies and targets that pass and that fail:
\* two boards, one task, one comment, one account.
MaxFailureAccounts == 1

FailureBoardBodies ==
    Bodies(Optional("title", {"A"}),
           Optional("members", {<<2>>, <<4>>, <<5, 2, 4>>}))

FailureBoardUpdateBodies ==
    {[members |-> <<2>>], [members |-> <<4>>], [title |-> "B", members |-> <<5, 2, 4>>]}

FailureTaskBodies ==
    {[board |-> b, title |-> "A", status |-> st, priority |-> "low"] :
        b \in IdInputs(MaxTaskBoards), st \in {"to-do", "bogus"}}
      \cup {[board |-> 1, title |-> "A", status |-> "to-do", priority |-> "low",
             assignee_id |-> 3]}

FailureTaskUpdateBodies == {[status |-> "done"], [status |-> "bogus"], [reviewer_id |-> 3]}

FailureRegistrationBodies ==
    {body \in RegistrationBodies : body.email = [local |-> <<"a">>, domain |-> <<"x">>]}

FailureLoginBodies ==
    {body \in LoginBodies : body.email = [local |-> <<"a">>, domain |-> <<"x">>]}

NextFailures ==
    \/ \E u \in BoardCreators, body \in FailureBoardBodies :
        nextBoardId <= MaxBoards /\ BoardCreate(u, body)
    \/ \E u \in Users, b \in IdInputs(MaxTaskBoards) : BoardRetrieve(u, b)
    \/ \E u \in Users, b \in IdInputs(MaxTaskBoards), body \in FailureBoardUpdateBodies :
        BoardUpdate(u, b, "PATCH", body)
    \/ \E u \in Users, b \in IdInputs(MaxTaskBoards) : BoardDestroy(u, b)
    \/ \E u \in Users, body \in FailureTaskBodies :
        nextTaskId <= MaxTasks /\ TaskCreate(u, body)
    \/ \E u \in Users, t \in IdInputs(MaxTasks) : TaskRetrieve(u, t)
    \/ \E u \in Users, t \in IdInputs(MaxTasks), body \in FailureTaskUpdateBodies :
        TaskUpdate(u, t, "PATCH", body)
    \/ \E u \in Users, t \in IdInputs(MaxTasks) : TaskDestroy(u, t)
    \/ \E u \in Users, t \in IdInputs(MaxTasks) : CommentList(u, t)
    \/ \E u \in Users, t \in IdInputs(MaxTasks), body \in CommentBodies :
        nextCommentId <= MaxComments /\ CommentCreate(u, t, body)
    \/ \E u \in Users, t \in IdInputs(MaxTasks), c \in IdInputs(MaxComments) :
        CommentDestroy(u, t, c)
    \/ \E body \in FailureRegistrationBodies :
        nextUserId <= MaxFailureAccounts /\ Register(body)
    \/ \E body \in FailureLoginBodies : Login(body)

SpecFailures == Init /\ [][NextFailures]_vars

\* C11: a successful board update that carries member ids M leaves the
\* board's member set equal to set(M), whoever was a member before and
\* whether or not the owner is in M; one that carries no members leaves the
\* member set as it was; one that carries no title leaves the title as it
\* was; the owner, the other boards, the tasks and the comments never change.
C11_UpdateReplaces ==
    [][(resp'.op = "BoardUpdate" /\ resp'.result = OK) =>
        LET b == resp'.target
            body == resp'.body
        IN /\ DOMAIN boards' = DOMAIN boards
           /\ boards'[b].members =
                IF Has(body, "members") THEN Range(body.members) ELSE boards[b].members
           /\ boards'[b].title =
                IF Has(body, "title") THEN body.title ELSE boards[b].title
           /\ boards'[b].owner = boards[b].owner
           /\ \A o \in DOMAIN boards \ {b} : boards'[o] = boards[o]
           /\ UNCHANGED <<tasks, comments>>]_vars

\* C11 witness: an update carrying a non-empty member list and no title
\* succeeded on a board that keeps its first title and whose owner, a member
\* since creation, is no longer one.
C11_Witness ==
    /\ resp.op = "BoardUpdate"
    /\ resp.result = OK
    /\ Has(resp.body, "members")
    /\ ~Has(resp.body, "title")
    /\ boards[resp.target].members = Range(resp.body.members)
    /\ boards[resp.target].members # {}
    /\ boards[resp.target].owner \notin boards[resp.target].members
    /\ boards[resp.target].title = "A"

\* what the owner of every board is allowed: GET, PUT/PATCH and DELETE of
\* the board, and GET of its tasks and of their comments
OwnerHasAccess ==
    \A b \in DOMAIN boards :
        /\ boards[b].owner \in Users
        /\ BoardGetObject(boards[b].owner, b) = OK
        /\ BoardPerformDestroy(boards[b].owner, b) = OK
        /\ \A t \in TasksOfBoard(b) :
              /\ TaskGetObject(boards[b].owner, t) = OK
              /\ GetTaskOr404Checked(boards[b].owner, t) = OK

\* C12: a board's owner is the user who created it and stays that user in
\* every later state, whoever updates the board; board ids are not reused;
\* and in every state the owner passes the access checks of the board's GET,
\* PUT/PATCH and DELETE and of its tasks, whatever the member set is.
C12_OwnerImmutable ==
    [][/\ \A b \in DOMAIN boards \cap DOMAIN boards' : boards'[b].owner = boards[b].owner
       /\ \A b \in DOMAIN boards' \ DOMAIN boards :
            /\ resp'.op = "BoardCreate"
            /\ boards'[b].owner = resp'.user
            /\ b = nextBoardId
            /\ nextBoardId' > nextBoardId
       /\ nextBoardId' >= nextBoardId
       /\ \A b \in DOMAIN boards : b < nextBoardId
       /\ OwnerHasAccess']_vars

\* C12 witness: a member who is not the owner replaced the member set of a
\* board that has a task, and the owner is not in the new member set.
C12_Witness ==
    /\ resp.op = "BoardUpdate"
    /\ resp.result = OK
    /\ Has(resp.body, "members")
    /\ resp.user # boards[resp.target].owner
    /\ boards[resp.target].owner \notin boards[resp.target].members
    /\ TasksOfBoard(resp.target) # {}

\* the value field f of a task has after an update with body, given its
\* value before: the one sent under key if key was sent, else the old one
Updated(body, key, before) == IF Has(body, key) THEN body[key] ELSE before

\* C13: a successful task update sets title, description, status, priority
\* and due_date to the value sent and leaves each of them alone when it was
\* not sent; assignee and reviewer become the user sent as assignee_id /
\* reviewer_id, become null when null was sent, and stay when nothing was
\* sent; board and created_by never change, nor does any other row.
C13_UpdateExactlySupplied ==
    [][(resp'.op = "TaskUpdate" /\ resp'.result = OK) =>
        LET body == resp'.body
            old == tasks[resp'.target]
            new == tasks'[resp'.target]
        IN /\ DOMAIN tasks' = DOMAIN tasks
           /\ new.title = Updated(body, "title", old.title)
           /\ new.description = Updated(body, "description", old.description)
           /\ new.status = Updated(body, "status", old.status)
           /\ new.priority = Updated(body, "priority", old.priority)
           /\ new.due_date = Updated(body, "due_date", old.due_date)
           /\ new.assignee = Updated(body, "assignee_id", old.assignee)
           /\ new.reviewer = Updated(body, "reviewer_id", old.reviewer)
           /\ new.board = old.board
           /\ new.created_by = old.created_by
           /\ UNCHANGED <<boards, comments>>]_vars

\* C13 witness: an update sending status done and assignee_id null succeeded
\* on a task that keeps the title, description, due date and reviewer earlier
\* updates gave it and the priority it was created with.
C13_Witness ==
    /\ resp.op = "TaskUpdate"
    /\ resp.result = OK
    /\ resp.body = [status |-> "done", assignee_id |-> NULL]
    /\ tasks[resp.target].status = "done"
    /\ tasks[resp.target].assignee = NULL
    /\ tasks[resp.target].title = "B"
    /\ tasks[resp.target].description = "d"
    /\ tasks[resp.target].due_date = 1
    /\ tasks[resp.target].reviewer = 2
    /\ tasks[resp.target].priority = "low"

\* C14: a task creation by an owner or member of an existing board that
\* carries a title and neither status nor priority (and no assignee or
\* reviewer) succeeds, and the task stored has status to-do and priority
\* medium.
C14_CreateDefaults ==
    [][(resp'.op = "TaskCreate"
          /\ resp'.body.board \in DOMAIN boards
          /\ IsOwnerOrMember(resp'.user, resp'.body.board)
          /\ DOMAIN resp'.body = {"board", "title"}) =>
        /\ resp'.result = OK
        /\ nextTaskId \in DOMAIN tasks'
        /\ tasks'[nextTaskId].status = "to-do"
        /\ tasks'[nextTaskId].priority = "medium"]_vars

\* the values a stored task may have in status and priority
ChoicesHold ==
    \A t \in DOMAIN tasks :
        /\ tasks[t].status \in {"to-do", "in-progress", "review", "done"}
        /\ tasks[t].priority \in {"low", "medium", "high"}

\* the body carries a status or a priority outside the enumerated values
NamesBadChoice(body) ==
    \/ Has(body, "status") /\ body.status \notin {"to-do", "in-progress", "review", "done"}
    \/ Has(body, "priority") /\ body.priority \notin {"low", "medium", "high"}

\* C15: every stored task has its status among to-do, in-progress, review,
\* done and its priority among low, medium, high; a task creation that
\* carries a value outside these fails with ValidationError, a task update
\* that does so never succeeds and fails with ValidationError when the task
\* exists and the requester has access to it, and neither stores anything.
C15_ChoicesEnforced ==
    [][/\ ChoicesHold'
       /\ (resp'.op = "TaskCreate" /\ NamesBadChoice(resp'.body)) =>
            resp'.result = ValidationError /\ UNCHANGED db
       /\ (resp'.op = "TaskUpdate" /\ NamesBadChoice(resp'.body)) =>
            /\ resp'.result # OK
            /\ UNCHANGED db
            /\ (resp'.target \in DOMAIN tasks
                  /\ IsOwnerOrMember(resp'.user, tasks[resp'.target].board)) =>
                 resp'.result = ValidationError]_vars

\* C15 witness: a member's update sending a priority outside the enumerated
\* values, together with a new title, was refused with a ValidationError and
\* the task keeps its title.
C15_Witness ==
    /\ resp.op = "TaskUpdate"
    /\ resp.result = ValidationError
    /\ resp.body = [title |-> "B", priority |-> "bogus"]
    /\ resp.target \in DOMAIN tasks
    /\ IsOwnerOrMember(resp.user, tasks[resp.target].board)
    /\ tasks[resp.target].title = "A"

\* two emails that are equal once letter case is ignored
EqualIgnoringCase(e1, e2) ==
    Lower(e1.local) = Lower(e2.local) /\ Lower(e1.domain) = Lower(e2.domain)

\* C16: a registration whose password differs from repeated_password, or
\* whose email equals, letter case ignored, the email of a user, fails with a
\* ValidationError and leaves users and tokens as they were; so the second of
\* two registrations with one email, in any letter case, fails.
C16_RegistrationRejects ==
    [][(resp'.op = "Register"
          /\ \/ resp'.body.password # resp'.body.repeated_password
             \/ \E id \in DOMAIN accounts :
                   EqualIgnoringCase(accounts[id].email, resp'.body.email)) =>
        resp'.result = ValidationError /\ UNCHANGED auth]_vars

\* C16 witness: a registration with matching passwords was refused because
\* its email is the email of a user written in another letter case.
C16_Witness ==
    /\ resp.op = "Register"
    /\ resp.result = ValidationError
    /\ resp.body.password = resp.body.repeated_password
    /\ resp.data = <<"Email is already in use.">>
    /\ \A id \in DOMAIN accounts : accounts[id].email.local # resp.body.email.local
    /\ \E id \in DOMAIN accounts : EqualIgnoringCase(accounts[id].email, resp.body.email)

\* usernames are pairwise distinct
UsernamesDistinct ==
    \A i, j \in DOMAIN accounts : accounts[i].username = accounts[j].username => i = j

\* the k-th username of the claim for local part L: L, L_1, L_2, ...
NamedCandidate(L, k) == IF k = 0 THEN L ELSE L \o <<"_">> \o Decimal(k)

\* the k-th username for local part L when a username holds at most
\* UsernameMaxLength characters: L cut to that length, then L cut to leave
\* room for _k, followed by _k
CutCandidate(L, k) ==
    IF k = 0 THEN Take(L, UsernameMaxLength)
    ELSE Take(L, UsernameMaxLength - 1 - Len(Decimal(k))) \o <<"_">> \o Decimal(k)

\* the username is the first of the candidates that no user had
FirstFree(username, Candidate(_)) ==
    \E k \in 0..Cardinality(DOMAIN accounts) :
        /\ username = Candidate(k)
        /\ \A j \in 0..(k - 1) : \E id \in DOMAIN accounts : accounts[id].username = Candidate(j)
        /\ \A id \in DOMAIN accounts : accounts[id].username # username

\* C17 as stated: usernames are pairwise distinct, and a successful
\* registration with local part L gets the first free one of L, L_1, L_2, ...
C17_Original ==
    [][/\ UsernamesDistinct'
       /\ (resp'.op = "Register" /\ resp'.result = OK) =>
            LET L == resp'.body.email.local
                Candidate(k) == NamedCandidate(L, k)
            IN FirstFree(accounts'[resp'.target].username, Candidate)]_vars

\* C17 amended: usernames are pairwise distinct and hold at most 150
\* characters, and a successful registration with local part L gets the first
\* free one of the candidates L cut to 150 characters, then L cut to leave
\* room for the suffix followed by _1, _2, ... (L, L_1, L_2, ... when L is
\* short enough).
C17_DerivedUsernames ==
    [][/\ UsernamesDistinct'
       /\ \A id \in DOMAIN accounts' : Len(accounts'[id].username) <= UsernameMaxLength
       /\ \A id \in DOMAIN accounts : accounts'[id].username = accounts[id].username
       /\ (resp'.op = "Register" /\ resp'.result = OK) =>
            LET L == resp'.body.email.local
                Candidate(k) == CutCandidate(L, k)
            IN FirstFree(accounts'[resp'.target].username, Candidate)]_vars

\* C17 witness: of two users registered with one local part of 151
\* characters, the first has its first 150 characters as username and the
\* second its first 148 followed by _1.
C17_Witness ==
    /\ resp.op = "Register"
    /\ resp.result = OK
    /\ Len(resp.body.email.local) = UsernameMaxLength + 1
    /\ accounts[resp.target].username =
         SubSeq(resp.body.email.local, 1, UsernameMaxLength - 2) \o <<"_", "1">>
    /\ \E id \in DOMAIN accounts :
         accounts[id].username = SubSeq(resp.body.email.local, 1, UsernameMaxLength)

\* the error a login with this email and password ends in (OK if it succeeds)
LoginOutcome(email, password) == LoginValidate([email |-> email, password |-> password])

\* an email no registration uses
UnknownEmail == [local |-> <<"b">>, domain |-> <<"x">>]

\* C18: a login with the email of a user and a password that is not that
\* user's ends in the same error as a login with an email of no user and the
\* same password.
C18_NoEmailLeak ==
    \A id \in DOMAIN accounts, password \in {"p", "q"} :
        password # accounts[id].password =>
            LoginOutcome(accounts[id].email, password) = LoginOutcome(UnknownEmail, password)

\* C19: a login for a user who is inactive ends, whatever the password, in
\* the error "Invalid email or password." that a login with an email of no
\* user ends in.
C19_InactiveGeneric ==
    \A id \in DOMAIN accounts, password \in {"p", "q"} :
        ~accounts[id].is_active =>
            /\ LoginOutcome(accounts[id].email, password) = "Invalid email or password."
            /\ LoginOutcome(accounts[id].email, password) = LoginOutcome(UnknownEmail, password)

\* C20: every user has one token row and no more, a row never changes or
\* goes away, and a successful registration or login returns the key of the
\* user's row: the login of a user returns the key their registration and
\* their earlier logins returned.
C20_TokenIdempotent ==
    [][/\ \A uid \in DOMAIN accounts' : Cardinality({row \in tokens' : row.user = uid}) = 1
       /\ tokens \subseteq tokens'
       /\ (resp'.op \in {"Register", "Login"} /\ resp'.result = OK) =>
            /\ [key |-> resp'.data[1], user |-> resp'.target] \in tokens'
            /\ resp'.data[2] = resp'.target
            /\ resp'.op = "Login" =>
                 [key |-> resp'.data[1], user |-> resp'.target] \in tokens]_vars

\* C20 witness: the first user logged in after two more users had registered
\* and got the key their registration had made.
C20_Witness ==
    /\ resp.op = "Login"
    /\ resp.result = OK
    /\ resp.target = 1
    /\ resp.data[1] = 1
    /\ Cardinality(tokens) = 3
    /\ Cardinality(DOMAIN accounts) = 3

\* the comments of task t
CommentsOn(t) == {c \in DOMAIN comments : comments[c].task = t}

\* C21: a comment creation whose content is empty or blank fails with
\* ValidationError and stores nothing; one with other content, by a requester
\* with access to the task, stores exactly one new comment, on the task of the
\* URL and with the requester as author whatever author the body names; a
\* comment list holds the task's comments, each once, by created_at then id
\* ascending, and a new comment is listed after all earlier ones.
C21_CommentCreateAndOrder ==
    [][/\ (resp'.op = "CommentCreate" /\ Has(resp'.body, "content")) =>
            IF IsBlank(resp'.body.content)
            THEN resp'.result = ValidationError /\ UNCHANGED db
            ELSE (resp'.target \in DOMAIN tasks
                    /\ IsOwnerOrMember(resp'.user, tasks[resp'.target].board)) =>
                   /\ resp'.result = OK
                   /\ DOMAIN comments' = DOMAIN comments \cup {nextCommentId}
                   /\ nextCommentId \notin DOMAIN comments
                   /\ \A c \in DOMAIN comments : comments'[c] = comments[c]
                   /\ comments'[nextCommentId].task = resp'.target
                   /\ comments'[nextCommentId].author = resp'.user
                   /\ \A c \in DOMAIN comments :
                        /\ c < nextCommentId
                        /\ comments[c].created_at <= comments'[nextCommentId].created_at
       /\ (resp'.op = "CommentList" /\ resp'.result = OK) =>
            /\ Range(resp'.data) = CommentsOn(resp'.target)
            /\ Len(resp'.data) = Cardinality(CommentsOn(resp'.target))
            /\ \A i, j \in DOMAIN resp'.data :
                  i < j =>
                    \/ comments[resp'.data[i]].created_at < comments[resp'.data[j]].created_at
                    \/ /\ comments[resp'.data[i]].created_at = comments[resp'.data[j]].created_at
                       /\ resp'.data[i] < resp'.data[j]]_vars

\* C21 witness: a user with access posted a comment naming another user as author on a
\* task that had two comments made at one time; it is stored under the
\* requester's name and listed last.
C21_Witness ==
    /\ resp.op = "CommentCreate"
    /\ resp.result = OK
    /\ Has(resp.body, "author")
    /\ resp.body.author # resp.user
    /\ comments[resp.data[1]].author = resp.user
    /\ Len(CommentListQuery(resp.target)) = 3
    /\ CommentListQuery(resp.target)[3] = resp.data[1]
    /\ comments[CommentListQuery(resp.target)[1]].created_at =
         comments[CommentListQuery(resp.target)[2]].created_at

\* C22: for every board in the list returned to a requester, owner or
\* member, the member_count, ticket_count, tasks_to_do_count and
\* tasks_high_prio_count annotated by the list query equal the number of the
\* board's members, of its tasks, of its tasks with status to-do and of its
\* tasks with priority high, and these are the values reported.
C22_CountsAgree ==
    resp.op = "BoardList" =>
        \A i \in DOMAIN resp.data :
            LET b == resp.data[i].id
                naive == [member_count |-> Cardinality(boards[b].members),
                          ticket_count |->
                              Cardinality({t \in DOMAIN tasks : tasks[t].board = b}),
                          tasks_to_do_count |->
                              Cardinality({t \in DOMAIN tasks :
                                  tasks[t].board = b /\ tasks[t].status = "to-do"}),
                          tasks_high_prio_count |->
                              Cardinality({t \in DOMAIN tasks :
                                  tasks[t].board = b /\ tasks[t].priority = "high"})]
            IN /\ resp.data[i].annotated = naive
               /\ resp.data[i].counts = naive

\* C23: the assigned-to-me list of user U holds exactly the existing tasks
\* whose assignee is U and the reviewing list exactly those whose reviewer is
\* U, whether or not U is owner or member of the task's board, each task
\* once, by due_date ascending then id ascending, tasks without due_date last.
C23_TaskLists ==
    resp.op \in {"AssignedTasks", "ReviewingTasks"} =>
        LET mine == {t \in DOMAIN tasks :
                        IF resp.op = "AssignedTasks" THEN tasks[t].assignee = resp.user
                        ELSE tasks[t].reviewer = resp.user}
        IN /\ Range(resp.data) = mine
           /\ Len(resp.data) = Cardinality(mine)
           /\ \A i, j \in DOMAIN resp.data :
                 i < j =>
                    LET di == tasks[resp.data[i]].due_date
                        dj == tasks[resp.data[j]].due_date
                    IN \/ di # NULL /\ dj = NULL
                       \/ di # NULL /\ dj # NULL /\ di < dj
                       \/ di = dj /\ resp.data[i] < resp.data[j]

\* C23 witness: the assigned list of a user who is no longer on the board holds
\* three tasks, the one without due date first by id and listed last, the
\* other two in the order of their dates against the order of their ids.
C23_Witness ==
    /\ resp.op = "AssignedTasks"
    /\ resp.data = <<3, 2, 1>>
    /\ tasks[1].due_date = NULL
    /\ tasks[2].due_date = 2
    /\ tasks[3].due_date = 1
    /\ ~IsOwnerOrMember(resp.user, tasks[1].board)

\* C24: a task creation reports the first failing check in the order board
\* existence, creator membership, field values: with a board id that names no
\* board it fails with NotFound and by a user who is neither owner nor member
\* of the board with PermissionDenied, whatever its status, priority,
\* assignee_id and reviewer_id; ValidationError is returned only when the
\* board exists and the creator has access; on success created_by is the
\* requester.
C24_CreateOrder ==
    [][(resp'.op = "TaskCreate" /\ Has(resp'.body, "board") /\ Has(resp'.body, "title")) =>
        LET b == resp'.body.board
        IN /\ b \notin DOMAIN boards => resp'.result = NotFound
           /\ (b \in DOMAIN boards /\ ~IsOwnerOrMember(resp'.user, b)) =>
                 resp'.result = PermissionDenied
           /\ resp'.result = ValidationError =>
                 b \in DOMAIN boards /\ IsOwnerOrMember(resp'.user, b)
           /\ resp'.result = OK => tasks'[nextTaskId].created_by = resp'.user]_vars

\* C25: a board update, a task update and a comment creation on a task check
\* existence before permission before the request body: when the board or task
\* addressed does not exist the outcome is NotFound, and when it exists and the
\* requester is neither owner nor member of the board the outcome is
\* PermissionDenied, whatever the body, blank comment content included.
C25_ExistenceFirst ==
    [][/\ resp'.op = "BoardUpdate" =>
            /\ resp'.target \notin DOMAIN boards => resp'.result = NotFound
            /\ (resp'.target \in DOMAIN boards /\ ~IsOwnerOrMember(resp'.user, resp'.target))
                  => resp'.result = PermissionDenied
       /\ resp'.op \in {"TaskUpdate", "CommentCreate"} =>
            /\ resp'.target \notin DOMAIN tasks => resp'.result = NotFound
            /\ (resp'.target \in DOMAIN tasks
                  /\ ~IsOwnerOrMember(resp'.user, tasks[resp'.target].board))
                  => resp'.result = PermissionDenied]_vars

\* C26: eligibility is enforced when an assignee or reviewer is set and not
\* afterwards: every successful task creation or update that names a user V
\* as assignee or reviewer happens while V is owner or member of the task's
\* board; a membership replacement leaves every task's assignee and reviewer
\* as they were; and a task whose assignee or reviewer is no longer owner or
\* member of its board is still listed in that user's assigned or reviewing
\* list.
C26_EligibleWhenSet ==
    [][/\ (resp'.op \in {"TaskCreate", "TaskUpdate"} /\ resp'.result = OK) =>
            LET t == IF resp'.op = "TaskCreate" THEN nextTaskId ELSE resp'.target
            IN \A f \in {"assignee", "reviewer"} :
                  LET key == IF f = "assignee" THEN "assignee_id" ELSE "reviewer_id"
                  IN (Has(resp'.body, key) /\ resp'.body[key] # NULL) =>
                        /\ tasks'[t][f] = resp'.body[key]
                        /\ IsOwnerOrMember(resp'.body[key], tasks'[t].board)
       /\ resp'.op = "BoardUpdate" =>
            /\ DOMAIN tasks' = DOMAIN tasks
            /\ \A t \in DOMAIN tasks :
                  /\ tasks'[t].assignee = tasks[t].assignee
                  /\ tasks'[t].reviewer = tasks[t].reviewer
       /\ resp'.op = "AssignedTasks" =>
            \A t \in DOMAIN tasks :
                tasks[t].assignee = resp'.user => t \in Range(resp'.data)
       /\ resp'.op = "ReviewingTasks" =>
            \A t \in DOMAIN tasks :
                tasks[t].reviewer = resp'.user => t \in Range(resp'.data)]_vars

\* C26 witness: the assigned list of a user holds a task of a board that the
\* user neither owns nor is a member of any more.
C26_Witness ==
    /\ resp.op = "AssignedTasks"
    /\ \E t \in Range(resp.data) :
          /\ tasks[t].assignee = resp.user
          /\ ~IsOwnerOrMember(resp.user, tasks[t].board)

\* C27: in every reachable state no two users have emails that are equal
\* once letter case is ignored, also when registrations for one email are
\* handled at the same time.
C27_EmailsUnique ==
    \A i, j \in DOMAIN accounts :
        EqualIgnoringCase(accounts[i].email, accounts[j].email) => i = j

\* the requests for one board, each carrying members, that two workers have
\* both completed
BothUpdated(w1, w2) ==
    /\ w1 # w2
    /\ inflight[w1].op = "BoardUpdate" /\ inflight[w1].pc = "finished"
    /\ inflight[w2].op = "BoardUpdate" /\ inflight[w2].pc = "finished"
    /\ inflight[w1].target = inflight[w2].target
    /\ Has(inflight[w1].body, "members")
    /\ Has(inflight[w2].body, "members")

\* C28: once two board updates of one board carrying the member lists M1 and
\* M2 have both completed, however their steps were interleaved, the board's
\* member set is that of M1 or that of M2, never a mixture, and when one of
\* them carried a title the board's title is the title of one of the two.
C28_LastWriteWins ==
    \A w1, w2 \in Workers :
        BothUpdated(w1, w2) =>
            LET b == inflight[w1].target
                r1 == inflight[w1].body
                r2 == inflight[w2].body
            IN /\ boards[b].members \in {Range(r1.members), Range(r2.members)}
               /\ (Has(r1, "title") \/ Has(r2, "title")) =>
                     boards[b].title \in
                        {r.title : r \in {x \in {r1, r2} : Has(x, "title")}}

\* the stored field a body key writes
Column(key) ==
    IF key = "assignee_id" THEN "assignee"
    ELSE IF key = "reviewer_id" THEN "reviewer" ELSE key

\* C30: once two partial updates of one task that name disjoint sets of fields
\* have both completed, however their steps were interleaved, every field
\* either of them named holds the value that request sent: neither write of
\* the row puts a stale value over the other's field.
C30_DisjointUpdatesBothApply ==
    \A w1, w2 \in Workers :
        (/\ w1 # w2
         /\ inflight[w1].op = "TaskUpdate" /\ inflight[w1].pc = "finished"
         /\ inflight[w2].op = "TaskUpdate" /\ inflight[w2].pc = "finished"
         /\ inflight[w1].target = inflight[w2].target
         /\ DOMAIN inflight[w1].body \cap DOMAIN inflight[w2].body = {}) =>
            \A w \in {w1, w2} : \A key \in DOMAIN inflight[w].body :
                tasks[inflight[w].target][Column(key)] = inflight[w].body[key]

\* the ids of a list that resolve to no user, each once, ascending
MissingIds(member_ids) ==
    LET missing == Range(member_ids) \ (1..NumUsers)
    IN [i \in 1..Cardinality(missing) |->
          CHOOSE id \in missing : Cardinality({x \in missing : x < id}) = i - 1]

\* C29: a request that ends in NotFound, PermissionDenied or ValidationError
\* leaves users, tokens, boards with their member sets, tasks and comments as
\* they were; a board creation whose member list holds an id that resolves to
\* no user ends in a ValidationError naming every such id and creates no
\* board; a board update whose member list holds such an id changes neither
\* the title nor the member set.
C29_FailuresChangeNothing ==
    [][/\ resp'.result \in {NotFound, PermissionDenied, ValidationError} =>
            UNCHANGED <<db, auth>>
       /\ (resp'.op = "BoardCreate" /\ Has(resp'.body, "members")
              /\ MissingIds(resp'.body.members) # <<>>) =>
            /\ resp'.result = ValidationError
            /\ resp'.data = MissingIds(resp'.body.members)
            /\ boards' = boards
       /\ (resp'.op = "BoardUpdate" /\ Has(resp'.body, "members")
              /\ MissingIds(resp'.body.members) # <<>>) =>
            /\ resp'.result # OK
            /\ boards' = boards]_vars

\* C29 witness: with a board, a task and a comment stored, a board creation
\* naming two ids that resolve to no user next to one that does was refused
\* with both ids.
C29_Witness ==
    /\ resp.op = "BoardCreate"
    /\ resp.result = ValidationError
    /\ Has(resp.body, "members")
    /\ resp.body.members = <<5, 2, 4>>
    /\ resp.data = <<4, 5>>
    /\ DOMAIN comments # {}
    /\ DOMAIN accounts # {}

====
